---- MODULE Spec2Model ----
(***************************************************************************)
(* neat-resume: the two-column resume generator of neatresume/generator.py *)
(* (ResumeGenerator.generate_pdf, ColumnAwareDoc, TintedPageTemplate).     *)
(*                                                                         *)
(* Horizontal geometry is kept in hundredths of a point, so that 34% and   *)
(* 66% of the 576pt content width are whole numbers.  Vertical space is    *)
(* kept in rows: a Paragraph takes one row per wrapped line, a Spacer or a *)
(* Drawing one row, and a frame holds FrameRows rows.                      *)
(*                                                                         *)
(* Around the generator: programmatic_example.main (MainSpec), the         *)
(* pydantic models of neat_resume.config and neat_resume.resume            *)
(* (ConfigSpec) and the command line of neat_resume.__main__ (CliSpec).    *)
(* Repeated generate_pdf calls on one or more generators are GenSpec, the  *)
(* style factories and lookup tables of neat_resume.styles are StyleSpec,  *)
(* and LiveSpec is generate_pdf run to its end under weak fairness.        *)
(***************************************************************************)
EXTENDS Integers, Sequences, FiniteSets, TLC

(***************************************************************************)
(* Bounds of the model.                                                    *)
(***************************************************************************)
FrameRows == 21      \* rows that fit in one frame (doc.height, in rows)
MaxLines == 5        \* wrapped lines of a long text
MaxEntries == 3      \* size of a resume: the entries of all its collections,
                     \* plus one for optional contact fields, one for a long summary
MaxStory == 4        \* flowables of a story handed straight to ColumnAwareDoc

(***************************************************************************)
(* Units and page constants (reportlab.lib.units.inch, pagesizes.letter).  *)
(***************************************************************************)
inch == 7200
letter == <<61200, 79200>>

\* 0.25*inch, 0.1*inch, 0.05*inch as generate_pdf and beforeDrawPage write them
Margin == inch \div 4
Gap == inch \div 10
Overlap == inch \div 20

(***************************************************************************)
(* Dates and their formatting (datetime.date.strftime).                    *)
(***************************************************************************)
D(y, m) == [y |-> y, m |-> m]
NoDate == D(0, 0)

YearStr(y) ==
  CASE y = 2018 -> "2018" [] y = 2019 -> "2019" [] y = 2020 -> "2020"
    [] y = 2021 -> "2021" [] y = 2022 -> "2022" [] OTHER -> "0000"

MonthAbbr(m) ==
  <<"Jan", "Feb", "Mar", "Apr", "May", "Jun",
    "Jul", "Aug", "Sep", "Oct", "Nov", "Dec">>[m]

\* d.strftime("%Y")
strftime_Y(d) == <<YearStr(d.y)>>

\* mutant: the month is dropped
strftime_bY_yearOnly(d) == <<YearStr(d.y)>>

\* d.strftime("%b %Y")
strftime_bY(d) == <<MonthAbbr(d.m), " ", YearStr(d.y)>>

(***************************************************************************)
(* Flowables.  text is the paragraph's text as a sequence of pieces; h is  *)
(* its height in rows in the sidebar frame and hmain its height in the     *)
(* wider main frame (the texts of a resume are taken to wrap alike in      *)
(* both); postponed is reportlab's _postponed attribute.                   *)
(* sec, entry and role record where the flowable comes from: the builder   *)
(* that produced it, the index of the list entry it renders (0 for none)   *)
(* and "dates" for the paragraph made from an entry's dates.               *)
(***************************************************************************)
LongTexts == {"summary-long", "point-long"}

\* wrapped lines of a text: the rendering engine's measure
Rows(text) ==
  IF \E i \in 1..Len(text) : text[i] \in LongTexts THEN MaxLines ELSE 1

Paragraph(text, style, sec) ==
  [kind |-> "Paragraph", text |-> text, style |-> style, h |-> Rows(text),
   hmain |-> Rows(text),
   sec |-> sec, entry |-> 0, role |-> "", postponed |-> FALSE]

Spacer(sec) ==
  [kind |-> "Spacer", text |-> <<>>, style |-> "", h |-> 1, hmain |-> 1,
   sec |-> sec, entry |-> 0, role |-> "", postponed |-> FALSE]

Drawing(sec) ==
  [kind |-> "Drawing", text |-> <<>>, style |-> "", h |-> 1, hmain |-> 1,
   sec |-> sec, entry |-> 0, role |-> "", postponed |-> FALSE]

LeftColumnFinishedMarker ==
  [kind |-> "Marker", text |-> <<>>, style |-> "", h |-> 0, hmain |-> 0,
   sec |-> "break", entry |-> 0, role |-> "", postponed |-> FALSE]

FrameBreak ==
  [kind |-> "FrameBreak", text |-> <<>>, style |-> "", h |-> 0, hmain |-> 0,
   sec |-> "break", entry |-> 0, role |-> "", postponed |-> FALSE]

(***************************************************************************)
(* The story builders of ResumeGenerator.                                  *)
(***************************************************************************)
\* the elements of list entry k; Dates marks the paragraph of its dates
OfEntry(elements, k) == [i \in 1..Len(elements) |-> [elements[i] EXCEPT !.entry = k]]
Dates(f) == [f EXCEPT !.role = "dates"]

RECURSIVE Concat_reversed(_)
\* mutant: the lists are appended last to first
Concat_reversed(ss) == IF ss = <<>> THEN <<>> ELSE Concat_reversed(Tail(ss)) \o Head(ss)

RECURSIVE Concat(_)
\* story.extend over a sequence of element lists
Concat(ss) == IF ss = <<>> THEN <<>> ELSE Head(ss) \o Concat(Tail(ss))

_create_section_header(title, for_right_column, sec) ==
  << Paragraph(<<title>>,
               IF for_right_column THEN "SectionHeader" ELSE "LeftColumnHeader",
               sec),
     Drawing(sec),
     Spacer(sec) >>

\* mutant: the break comes before the marker
_frame_break_breakFirst == << FrameBreak, LeftColumnFinishedMarker >>

\* the marker followed by the frame break (line 384)
_frame_break == << LeftColumnFinishedMarker, FrameBreak >>

_build_candidate_header(candidate) ==
  << Paragraph(<<candidate.name>>, "CandidateName", "header"),
     Paragraph(<<candidate.title>>, "CandidateTitle", "header") >>

\* whether _register_fonts could register the Symbola font (pdfmetrics)
VARIABLE symbola

\* the icon in the Symbola font when it is registered, bare otherwise
format_contact_line(icon, text) ==
  IF symbola
    THEN <<"<font name=\"Symbola\">", icon, "</font>", " ", text>>
    ELSE <<icon, " ", text>>

_build_contact_info(candidate) ==
  LET contact_info ==
        << format_contact_line("phone-icon", candidate.phone),
           format_contact_line("mail-icon", candidate.email) >>
        \o (IF candidate.address # ""
              THEN <<format_contact_line("pin-icon", candidate.address)>> ELSE <<>>)
        \o (IF candidate.website # ""
              THEN <<format_contact_line("globe-icon", candidate.website)>> ELSE <<>>)
        \o (IF candidate.linkedin # ""
              THEN <<format_contact_line("globe-icon", "LinkedIn")>> ELSE <<>>)
        \o (IF candidate.github # ""
              THEN <<format_contact_line("globe-icon", "GitHub")>> ELSE <<>>)
        \o (IF candidate.gitlab # ""
              THEN <<format_contact_line("globe-icon", "GitLab")>> ELSE <<>>)
  IN _create_section_header("CONTACT", FALSE, "contact")
     \o [i \in 1..Len(contact_info) |->
           Paragraph(contact_info[i], "LeftColumnText", "contact")]
     \o << Spacer("contact") >>

_build_professional_summary_left(summary) ==
  << Paragraph(<<summary>>, "LeftColumnSummary", "summary"), Spacer("summary") >>

RECURSIVE Join(_, _)
\* sep.join(items)
Join(sep, items) ==
  IF items = <<>> THEN <<>>
  ELSE IF Len(items) = 1 THEN <<items[1]>>
  ELSE <<items[1], sep>> \o Join(sep, Tail(items))

\* str.upper() of the category and section names of the model
Upper(s) ==
  CASE s = "Languages" -> "LANGUAGES" [] s = "Tools" -> "TOOLS"
    [] s = "Projects" -> "PROJECTS" [] s = "Awards" -> "AWARDS"
    [] OTHER -> s

\* " * " stands for the bullet separator of " \u2022 ".join(skill_list)
_build_skills_section(skills) ==
  _create_section_header("SKILLS", FALSE, "skills")
  \o Concat([i \in 1..Len(skills) |-> OfEntry(
       << Paragraph(<<"<b>", Upper(skills[i].category), "</b>">>,
                    "LeftColumnText", "skills"),
          Paragraph(Join(" * ", skills[i].skill_list), "LeftColumnText", "skills"),
          Spacer("skills") >>, i)])
  \o << Spacer("skills") >>

\* f"{gpa:.2f}" of a gpa kept in hundredths
Digit(d) == <<"0", "1", "2", "3", "4", "5", "6", "7", "8", "9">>[d + 1]

Fmt2f(gpa) ==
  <<Digit(gpa \div 100), ".", Digit((gpa \div 10) % 10), Digit(gpa % 10)>>

NoGpa == -1

EducationEntry(edu) ==
  << Paragraph(<<"<b>", edu.degree, "</b>">>, "LeftColumnText", "education"),
     Paragraph(<<edu.field_of_study>>, "LeftColumnText", "education"),
     Paragraph(<<edu.institution>>, "LeftColumnText", "education") >>
  \o (IF edu.location # ""
        THEN <<Paragraph(<<edu.location>>, "LeftColumnText", "education")>>
        ELSE <<>>)
  \o (LET end_date == IF edu.end_date # NoDate
                        THEN strftime_Y(edu.end_date) ELSE <<"Present">>
          start_date == strftime_Y(edu.start_date)
      IN <<Dates(Paragraph(start_date \o <<" - ">> \o end_date,
                           "LeftColumnText", "education"))>>)
  \o (IF edu.gpa # NoGpa /\ edu.gpa # 0
        THEN <<Paragraph(<<"GPA: ">> \o Fmt2f(edu.gpa),
                         "LeftColumnText", "education")>>
        ELSE <<>>)
  \o << Spacer("education") >>

_build_education_section(education) ==
  _create_section_header("EDUCATION", FALSE, "education")
  \o Concat([i \in 1..Len(education) |->
               OfEntry(EducationEntry(education[i]), i)])

CertificationEntry(cert) ==
  << Paragraph(<<"<b>", cert.title, "</b>">>, "LeftColumnText", "certifications") >>
  \o (IF cert.issuer # ""
        THEN <<Paragraph(<<cert.issuer>>, "LeftColumnText", "certifications")>>
        ELSE <<>>)
  \o (IF cert.issue_date # NoDate
        THEN LET issue_date == strftime_Y(cert.issue_date)
                 expiry_text == IF cert.expiry_date # NoDate
                                  THEN <<" - ">> \o strftime_Y(cert.expiry_date)
                                  ELSE <<>>
             IN <<Dates(Paragraph(issue_date \o expiry_text,
                                  "LeftColumnText", "certifications"))>>
        ELSE <<>>)
  \o << Spacer("certifications") >>

_build_certifications_section(certifications) ==
  _create_section_header("CERTIFICATIONS", FALSE, "certifications")
  \o Concat([i \in 1..Len(certifications) |->
               OfEntry(CertificationEntry(certifications[i]), i)])

ExperienceEntry(exp) ==
  << Paragraph(<<exp.position>>, "ExperienceTitle", "experience") >>
  \o (LET end_date == IF exp.end_date # NoDate
                        THEN strftime_bY(exp.end_date) ELSE <<"Present">>
          start_date == strftime_bY(exp.start_date)
          company_info == <<exp.company, " | ">> \o start_date
                          \o <<" - ">> \o end_date
      IN <<Dates(Paragraph(company_info, "ExperienceSubtitle", "experience"))>>)
  \o [i \in 1..Len(exp.summary) |->
        Paragraph(<<"* ", exp.summary[i]>>, "RightColumnText", "experience")]
  \o << Spacer("experience") >>

_build_experience_section(experience) ==
  _create_section_header("WORK EXPERIENCE", TRUE, "experience")
  \o Concat([i \in 1..Len(experience) |->
               OfEntry(ExperienceEntry(experience[i]), i)])

CustomBlock(block) ==
  << Paragraph(<<"<b>", block.title, "</b>">>, "ExperienceTitle", "custom") >>
  \o (IF block.subtitle # ""
        THEN <<Paragraph(<<block.subtitle>>, "ExperienceSubtitle", "custom")>>
        ELSE <<>>)
  \o [i \in 1..Len(block.summary) |->
        Paragraph(<<"* ", block.summary[i]>>, "RightColumnText", "custom")]
  \o << Spacer("custom") >>

_build_custom_sections(custom_sections) ==
  Concat([s \in 1..Len(custom_sections) |->
    OfEntry(_create_section_header(Upper(custom_sections[s].title), TRUE, "custom")
            \o Concat([b \in 1..Len(custom_sections[s].blocks) |->
                         CustomBlock(custom_sections[s].blocks[b])]), s)])

\* custom_sections is Optional: [some |-> FALSE] is None, and the mapping is
\* the sequence of its items in iteration order
Sections(items) == [some |-> TRUE, items |-> items]
NoSections == [some |-> FALSE, items |-> <<>>]

\* mutant: education appended before skills
BuildStory_educationFirst(resume_data) ==
  _build_candidate_header(resume_data.candidate_info)
  \o << Spacer("header") >>
  \o _build_professional_summary_left(resume_data.professional_summary)
  \o _build_contact_info(resume_data.candidate_info)
  \o _build_education_section(resume_data.education)
  \o _build_skills_section(resume_data.skills)
  \o (IF resume_data.certifications # <<>>
        THEN _build_certifications_section(resume_data.certifications)
        ELSE <<>>)
  \o _frame_break
  \o _build_experience_section(resume_data.work_experience)
  \o (IF resume_data.custom_sections.some
         /\ resume_data.custom_sections.items # <<>>
        THEN _build_custom_sections(resume_data.custom_sections.items)
        ELSE <<>>)

\* the story generate_pdf builds (generator.py lines 308-329)
BuildStory(resume_data) ==
  _build_candidate_header(resume_data.candidate_info)
  \o << Spacer("header") >>
  \o _build_professional_summary_left(resume_data.professional_summary)
  \o _build_contact_info(resume_data.candidate_info)
  \o _build_skills_section(resume_data.skills)
  \o _build_education_section(resume_data.education)
  \o (IF resume_data.certifications # <<>>
        THEN _build_certifications_section(resume_data.certifications)
        ELSE <<>>)
  \o _frame_break
  \o _build_experience_section(resume_data.work_experience)
  \o (IF resume_data.custom_sections.some
         /\ resume_data.custom_sections.items # <<>>
        THEN _build_custom_sections(resume_data.custom_sections.items)
        ELSE <<>>)

(***************************************************************************)
(* Frames and page template, as generate_pdf sets them up.                 *)
(***************************************************************************)
\* doc.leftMargin, doc.rightMargin ... of ColumnAwareDoc(pagesize=letter, ...)
leftMargin == Margin
rightMargin == Margin
topMargin == Margin
bottomMargin == Margin

\* page_width = letter[0] - doc.leftMargin - doc.rightMargin
page_width == letter[1] - leftMargin - rightMargin

\* left_col_width = page_width * 0.34
left_col_width == (page_width * 34) \div 100

\* right_col_width = page_width * 0.66
right_col_width == (page_width * 66) \div 100

\* doc.height of BaseDocTemplate: the page height less the two margins
doc_height == letter[2] - topMargin - bottomMargin

Frame(x1, y1, width, height, id) ==
  [x1 |-> x1, y1 |-> y1, width |-> width, height |-> height, id |-> id]

LeftFrame ==
  Frame(leftMargin, bottomMargin, left_col_width - Gap, doc_height, "left_col")

\* mutant: the gap taken off instead of added
RightFrameX_gapSign == leftMargin + left_col_width - Gap

RightFrameX == leftMargin + left_col_width + Gap

RightFrame ==
  Frame(RightFrameX, bottomMargin, right_col_width - Gap, doc_height, "right_col")

TintedPageTemplate ==
  [id |-> "TwoCol", frames |-> <<LeftFrame, RightFrame>>,
   left_col_width |-> left_col_width, page_width |-> page_width,
   page_height |-> letter[2], left_margin |-> leftMargin]

\* mutant: the left margin forgotten
ColumnBoundary_noMargin(tpl) == tpl.left_col_width + Overlap

\* mutant: the overlap runs past the gap
ColumnBoundary_pastGap(tpl) == tpl.left_margin + tpl.left_col_width + Gap + Overlap

\* column_boundary of beforeDrawPage
ColumnBoundary(tpl) == tpl.left_margin + tpl.left_col_width + Overlap

\* the canvas.rect(0, 0, column_boundary, page_height) of beforeDrawPage
beforeDrawPage(tpl, pageno) ==
  [page |-> pageno, x |-> 0, y |-> 0,
   width |-> ColumnBoundary(tpl), height |-> tpl.page_height,
   color |-> "#e1e8f0"]

(***************************************************************************)
(* The document: ColumnAwareDoc over reportlab's BaseDocTemplate.          *)
(* frame is the index of doc.frame in pageTemplate.frames, NoFrame when    *)
(* doc.frame is None (between handle_pageEnd and the next page's begin).   *)
(***************************************************************************)
VARIABLES
  pc,                        \* "start", "build", "done", "raised" in generate_pdf;
                             \* the programs add their own steps and "exited"
  resume_data,               \* the input of generate_pdf
  story,                     \* the story as built
  flowables,                 \* the flowables still to handle
  template,                  \* the page template added to the doc
  page, frame, y,            \* doc.page, doc.frame, rows used in doc.frame
  hanging,                   \* a PageBegin is pending in doc._hanging
  pages,                     \* pages shown on the canvas
  _last_page, _last_frame,
  _left_column_finished, _in_left_column_content,
  error, page_number,        \* the exception raised and its page_number
  placed,                    \* every flowable drawn, with its page and frame
  painted,                   \* every rectangle painted by beforeDrawPage
  outfile                    \* the file at output_path: "absent", "written", "partial"

\* The ResumeGenerator the calls are made on, and the documents of its calls.
\* Documents are numbered in the order of their creation.
VARIABLES
  generator,                 \* the ResumeGenerator instance in use (instances are numbered)
  _current_doc,              \* self._current_doc of that instance, NoDoc while not set
  doc_ref,                   \* the doc_ref of the story's LeftColumnFinishedMarker
  docs,                      \* the flags of the documents of the calls that have ended
  runs                       \* what each call that has ended built and how it ended

\* The programs around the generator and the configuration models.
VARIABLES
  json_file,                 \* the input file: whether it exists, parses, and its document
  argv,                      \* the command line after the program name
  today,                     \* datetime.date.today()
  config,                    \* the Config constructed, NoConfig before and on failure
  calls,                     \* the functions of the program entered so far, in order
  printed,                    \* the messages printed so far, in order
  exit_code                  \* the process's exit status, NotExited while it runs

\* The style factories of neat_resume.styles and the paper sizes of
\* neat_resume.config used on their own.
VARIABLES
  factory,                   \* the BaseStyleFactory constructed, NoFactory before
  style_args,                \* the arguments of the last get_style call
  style,                     \* the ParagraphStyle it returned, NoStyle before
  dims                       \* the last PageSize member asked for its size, and the size

\* the variables of the document and its build
docvars ==
  <<symbola, resume_data, story, flowables, template, page, frame, y, hanging, pages,
    _last_page, _last_frame, _left_column_finished, _in_left_column_content,
    page_number, placed, painted, outfile,
    generator, _current_doc, doc_ref, docs, runs>>

\* the variables of the programs and the configuration models
stylevars == <<factory, style_args, style, dims>>

sysvars == <<stylevars, json_file, argv, today, config, calls, printed, exit_code>>

vars == <<pc, error, docvars, sysvars>>

NoFrame == -1
NoDoc == 0

\* the number of the document being built: the documents before it have ended
CurrentDoc == Len(docs) + 1

\* _left_column_finished of the document numbered id; a doc_ref that is no
\* document has no mark_left_column_finished (the hasattr test of line 376)
FlagOf(id) ==
  IF id = CurrentDoc THEN _left_column_finished
  ELSE IF id \in 1..Len(docs) THEN docs[id]._left_column_finished
  ELSE FALSE

\* the part of the document state the layout engine works on; finished is
\* the flag of the document the story's marker refers to
DocState ==
  [flowables |-> flowables, page |-> page, frame |-> frame, y |-> y,
   hanging |-> hanging, pages |-> pages, finished |-> FlagOf(doc_ref),
   placed |-> placed, painted |-> painted, err |-> ""]

\* handle_pageBegin: the frame a new page starts in
FirstFrame == 0

\* mutant: the page begins without its background being painted
clean_hanging_noPaint(d) ==
  IF d.hanging
    THEN [d EXCEPT !.hanging = FALSE, !.page = d.page + 1,
                   !.frame = 0, !.y = 0]
    ELSE d

\* clean_hanging, run by build before every handle_flowable: a pending
\* PageBegin starts the next page, paints it and enters its first frame
clean_hanging(d) ==
  IF d.hanging
    THEN [d EXCEPT !.hanging = FALSE, !.page = d.page + 1,
                   !.painted = Append(d.painted, beforeDrawPage(template, d.page + 1)),
                   !.frame = FirstFrame, !.y = 0]
    ELSE d

\* handle_pageEnd: showPage, no current frame, PageBegin left hanging
handle_pageEnd(d) ==
  [d EXCEPT !.pages = d.pages + 1, !.frame = NoFrame, !.hanging = TRUE]

\* handle_frameEnd: the next frame of the page, or the page's end after the last
handle_frameEnd(d) ==
  IF d.frame = Len(template.frames) - 1
    THEN handle_pageEnd(d)
    ELSE [d EXCEPT !.frame = d.frame + 1, !.y = 0]

\* rows left in the current frame (Frame._add: h = y - p - s)
Avail(d) == FrameRows - d.y

\* flowable.wrap(availWidth, availHeight): the height in the current frame
Height(d, f) == IF d.frame = 1 THEN f.hmain ELSE f.h

\* Frame._add: the flowable is wrapped only when some height is left, and is
\* drawn when its wrapped height fits
Fits(d, f) == Avail(d) > 0 /\ Height(d, f) <= Avail(d)

\* mutant: wrapping the marker marks nothing
Place_unmarked(d, f) ==
  [d EXCEPT !.y = d.y + Height(d, f),
            !.placed = Append(d.placed, [fl |-> f, page |-> d.page, frame |-> d.frame,
                                         rects |-> Len(d.painted)])]

\* rects is the number of rectangles already on the canvas when the
\* flowable is drawn
Place(d, f) ==
  [d EXCEPT !.y = d.y + Height(d, f),
            !.placed = Append(d.placed, [fl |-> f, page |-> d.page, frame |-> d.frame,
                                         rects |-> Len(d.painted)]),
            !.finished = d.finished \/ f.kind = "Marker"]

\* Paragraph.split(availWidth, availHeight): as many lines as fit, none when
\* that leaves an orphan (allowOrphans = 0); other flowables do not split
CanSplit(d, f) == f.kind = "Paragraph" /\ Avail(d) > 1

SplitParts(d, f) ==
  << [f EXCEPT !.h = Avail(d), !.hmain = Avail(d), !.postponed = FALSE],
     [f EXCEPT !.h = Height(d, f) - Avail(d), !.hmain = Height(d, f) - Avail(d),
               !.postponed = FALSE] >>

\* BaseDocTemplate.handle_flowable
BaseHandleFlowable(d) ==
  LET f == Head(d.flowables)
      d0 == [d EXCEPT !.flowables = Tail(d.flowables)]
  IN IF f.kind = "FrameBreak" THEN handle_frameEnd(d0)
     ELSE IF Fits(d, f) THEN Place(d0, f)
     ELSE IF CanSplit(d, f)
       THEN LET S == SplitParts(d, f)
            IN [Place(d0, S[1]) EXCEPT !.flowables = <<S[2]>> \o d0.flowables]
     ELSE IF f.postponed THEN [d0 EXCEPT !.err = "LayoutError"]
     ELSE handle_frameEnd(
            [d0 EXCEPT !.flowables = <<[f EXCEPT !.postponed = TRUE]>> \o d0.flowables])

\* pageTemplate.frames.index(self.frame), 0 when there is no current frame
FrameIndex(d) == IF d.frame = NoFrame THEN 0 ELSE d.frame

\* the overflow test of ColumnAwareDoc.handle_flowable (line 80)
Overflow(new_frame_index, in_left, finished) ==
  new_frame_index = 1 /\ in_left /\ ~finished

\* mutant: the page counted from zero
OverflowPage_zeroBased(d) == d.page - 1

\* the argument of LeftColumnOverflowError (line 83): new_page
OverflowPage(d) == d.page

\* mutant: the error is swallowed and the loop goes on
AfterHandle_swallow(err) == "build"

\* build re-raises whatever handle_flowable raised and generate_pdf has no
\* handler: the state the run is in after handling one flowable
AfterHandle(err) == IF err # "" THEN "raised" ELSE "build"

(***************************************************************************)
(* Inputs.                                                                 *)
(***************************************************************************)
SeqsUpTo(S, n) == UNION {[1..k -> S] : k \in 0..n}

CandidatePool ==
  { [name |-> "Alex Chen", title |-> "Engineer", phone |-> "555-0100",
     email |-> "alex@example.com", address |-> "", website |-> "",
     linkedin |-> "", github |-> "", gitlab |-> ""],
    [name |-> "Alex Chen", title |-> "Engineer", phone |-> "555-0100",
     email |-> "alex@example.com", address |-> "Boston", website |-> "https://a.example",
     linkedin |-> "https://linkedin.example", github |-> "", gitlab |-> ""] }

SummaryPool == {"summary-short", "summary-long"}

SkillPool ==
  { [category |-> "Languages", skill_list |-> <<"Python", "Go">>],
    [category |-> "Tools", skill_list |-> <<"Git">>] }

EducationPool ==
  { [degree |-> "BSc", field_of_study |-> "Physics", institution |-> "MIT",
     location |-> "", start_date |-> D(2019, 9), end_date |-> NoDate,
     gpa |-> NoGpa],
    [degree |-> "MSc", field_of_study |-> "Maths", institution |-> "ETH",
     location |-> "Zurich", start_date |-> D(2018, 9), end_date |-> D(2020, 6),
     gpa |-> 350],
    [degree |-> "BA", field_of_study |-> "Music", institution |-> "RCM",
     location |-> "", start_date |-> D(2020, 9), end_date |-> NoDate,
     gpa |-> 0] }

CertificationPool ==
  { [title |-> "CKA", issuer |-> "", issue_date |-> D(2021, 3),
     expiry_date |-> NoDate],
    [title |-> "AWS", issuer |-> "Amazon", issue_date |-> D(2020, 1),
     expiry_date |-> D(2022, 1)] }

ExperiencePool ==
  { [position |-> "Intern", company |-> "Acme", start_date |-> D(2021, 6),
     end_date |-> NoDate, summary |-> <<>>],
    [position |-> "Engineer", company |-> "Initech", start_date |-> D(2019, 2),
     end_date |-> D(2021, 5), summary |-> <<"point-short", "point-long">>] }

SectionPool ==
  { [title |-> "Projects", blocks |-> <<>>],
    [title |-> "Awards",
     blocks |-> <<[title |-> "Prize", subtitle |-> "2020",
                   summary |-> <<"point-long">>]>>] }

\* skills and custom_sections are mappings: the sequences of their items in
\* iteration order, no key twice
SkillMaps(n) ==
  {sk \in SeqsUpTo(SkillPool, n) :
     \A i, j \in 1..Len(sk) : i # j => sk[i].category # sk[j].category}

SectionMaps(n) ==
  {cu \in SeqsUpTo(SectionPool, n) :
     \A i, j \in 1..Len(cu) : i # j => cu[i].title # cu[j].title}

Resume(c, s, sk, ed, ce, ex, cu) ==
  [candidate_info |-> c, professional_summary |-> s, skills |-> sk,
   education |-> ed, certifications |-> ce, work_experience |-> ex,
   custom_sections |-> cu]

EmptyResume ==
  Resume(CHOOSE c \in CandidatePool : c.address = "", "summary-short",
         <<>>, <<>>, <<>>, <<>>, NoSections)

(***************************************************************************)
(* Operations.                                                             *)
(***************************************************************************)
NotExited == -1
NoFile == [exists |-> FALSE, parses |-> FALSE, valid |-> FALSE, doc |-> <<>>]
NoConfig == [valid |-> FALSE]
NoDay == [y |-> 0, m |-> 0, d |-> 0]
NoFactory == [made |-> FALSE]
NoStyle == [made |-> FALSE]
NoDims == [paper |-> "", size |-> <<>>]

\* no style factory made and no paper size asked for
StyleInit0 ==
  /\ factory = NoFactory
  /\ style_args = [alignment |-> <<>>, textColor |-> <<>>]
  /\ style = NoStyle
  /\ dims = NoDims

\* generate_pdf called as a library function: no program around it
SysInit0 ==
  /\ json_file = NoFile
  /\ argv = <<>>
  /\ today = NoDay
  /\ config = NoConfig
  /\ calls = <<>>
  /\ printed = <<>>
  /\ exit_code = NotExited
  /\ StyleInit0

\* ColumnAwareDoc.__init__ and BaseDocTemplate's handle_documentBegin
DocInit0 ==
  /\ page = 0
  /\ frame = NoFrame
  /\ y = 0
  /\ hanging = TRUE
  /\ pages = 0
  /\ _last_page = 1
  /\ _last_frame = 0
  /\ _left_column_finished = FALSE
  /\ _in_left_column_content = FALSE
  /\ error = ""
  /\ page_number = 0
  /\ placed = <<>>
  /\ painted = <<>>
  /\ outfile = "absent"

\* ResumeGenerator.__init__ does not set _current_doc; no call has been made
GenInit0 ==
  /\ generator = 1
  /\ _current_doc = NoDoc
  /\ doc_ref = NoDoc
  /\ docs = <<>>
  /\ runs = <<>>

Init ==
  /\ pc = "start"
  /\ symbola \in BOOLEAN
  /\ \E c \in CandidatePool, s \in SummaryPool :
     LET n == MaxEntries - (IF c.address # "" THEN 1 ELSE 0)
                         - (IF s \in LongTexts THEN 1 ELSE 0) IN
     \E sk \in SkillMaps(n) :
     \E ed \in SeqsUpTo(EducationPool, n - Len(sk)) :
     \E ce \in SeqsUpTo(CertificationPool, n - Len(sk) - Len(ed)) :
     \E ex \in SeqsUpTo(ExperiencePool, n - Len(sk) - Len(ed) - Len(ce)) :
     \E cu \in {NoSections} \cup
               {Sections(i) : i \in SectionMaps(
                    n - Len(sk) - Len(ed) - Len(ce) - Len(ex))} :
       resume_data = Resume(c, s, sk, ed, ce, ex, cu)
  /\ story = <<>>
  /\ flowables = <<>>
  /\ template = [id |-> "none"]
  /\ DocInit0
  /\ GenInit0
  /\ SysInit0

\* mutant: the marker is given the document the generator held before this call
MarkerDoc_stale(held, doc) == held

\* the doc_ref of the marker _frame_break creates: self._current_doc as it is
\* at line 384, after line 267 has bound it to the document of this call
MarkerDoc(held, doc) == doc

\* generate_pdf up to doc.build(story): the doc, its frames and template, the story
GeneratePdf ==
  /\ pc = "start"
  /\ pc' = "build"
  /\ template' = TintedPageTemplate
  /\ story' = BuildStory(resume_data)
  /\ flowables' = BuildStory(resume_data)
  /\ _current_doc' = CurrentDoc
  /\ doc_ref' = MarkerDoc(_current_doc, CurrentDoc)
  /\ UNCHANGED <<symbola, resume_data, page, frame, y, hanging, pages, _last_page,
                 _last_frame, _left_column_finished, _in_left_column_content,
                 error, page_number, placed, painted, outfile, generator, docs, runs>>
  /\ UNCHANGED sysvars

\* one turn of build's loop: clean_hanging, then ColumnAwareDoc.handle_flowable
HandleFlowable ==
  /\ pc = "build"
  /\ flowables # <<>>
  /\ LET d == BaseHandleFlowable(clean_hanging(DocState))
         new_page == d.page
         new_frame_index == FrameIndex(d)
         finished == IF doc_ref = CurrentDoc THEN d.finished ELSE _left_column_finished
         in_left == _in_left_column_content \/ (d.err = "" /\ new_frame_index = 0)
         overflow == d.err = ""
                     /\ new_frame_index # 0
                     /\ Overflow(new_frame_index, _in_left_column_content, finished)
         err == IF overflow THEN "LeftColumnOverflowError" ELSE d.err
     IN /\ flowables' = d.flowables
        /\ page' = d.page
        /\ frame' = d.frame
        /\ y' = d.y
        /\ hanging' = d.hanging
        /\ pages' = d.pages
        /\ placed' = d.placed
        /\ painted' = d.painted
        /\ _left_column_finished' = finished
        /\ docs' = IF doc_ref \in 1..Len(docs)
                     THEN [docs EXCEPT ![doc_ref]._left_column_finished = d.finished]
                     ELSE docs
        /\ _in_left_column_content' = in_left
        /\ error' = err
        /\ page_number' = IF overflow THEN OverflowPage(d) ELSE page_number
        /\ _last_page' = IF err = "" THEN new_page ELSE _last_page
        /\ _last_frame' = IF err = "" THEN new_frame_index ELSE _last_frame
        /\ pc' = AfterHandle(err)
  /\ UNCHANGED <<symbola, resume_data, story, template, outfile,
                 generator, _current_doc, doc_ref, runs>>
  /\ UNCHANGED sysvars

\* mutant: the save returns without having written a file
SaveToFile_noFile(written) == "absent"

\* canvas.save(): the file at output_path is opened for writing and the
\* document written to it; a write that fails leaves what was written
SaveToFile(written) == IF written THEN "written" ELSE "partial"

\* the end of build: _endBuild ends the page in progress and saves the
\* canvas; generate_pdf returns when the save succeeded, and the OSError of
\* a failed write leaves generate_pdf, which has no handler
EndBuild ==
  /\ pc = "build"
  /\ flowables = <<>>
  /\ IF hanging
       THEN /\ hanging' = FALSE
            /\ UNCHANGED <<pages, frame>>
       ELSE /\ pages' = pages + 1
            /\ frame' = NoFrame
            /\ UNCHANGED hanging
  /\ \E written \in BOOLEAN :
       /\ outfile' = SaveToFile(written)
       /\ error' = IF written THEN error ELSE "OSError"
       /\ pc' = IF written THEN "done" ELSE "raised"
  /\ UNCHANGED <<symbola, resume_data, story, flowables, template, page, y, _last_page,
                 _last_frame, _left_column_finished, _in_left_column_content,
                 page_number, placed, painted, generator, _current_doc, doc_ref,
                 docs, runs>>
  /\ UNCHANGED sysvars

Next == GeneratePdf \/ HandleFlowable \/ EndBuild

Spec == Init /\ [][Next]_vars

\* the runs with the Symbola font registered: the font changes the markup of
\* the contact lines (format_contact_line) and no height
LiveInit == Init /\ symbola

\* generate_pdf is one sequential call with no wait in it: a step that can
\* be taken is taken

LiveSpec == LiveInit /\ [][Next]_vars /\ WF_vars(Next)

(***************************************************************************)
(* ColumnAwareDoc used directly: build(story) on any story, with the       *)
(* two-frame template of generate_pdf.                                     *)
(***************************************************************************)
Flowable(kind, h, hmain) ==
  [kind |-> kind, text |-> <<>>, style |-> "", h |-> h, hmain |-> hmain,
   sec |-> "story", entry |-> 0, role |-> "", postponed |-> FALSE]

FlowablePool ==
  { Flowable("Spacer", 1, 1), Flowable("Spacer", FrameRows + 1, FrameRows + 1),
    Flowable("Table", FrameRows + 1, FrameRows),
    Flowable("Paragraph", MaxLines, MaxLines),
    Flowable("Paragraph", FrameRows, FrameRows),
    LeftColumnFinishedMarker, FrameBreak }

DocInit ==
  /\ pc = "build"
  /\ symbola = FALSE
  /\ resume_data = EmptyResume
  /\ story \in SeqsUpTo(FlowablePool, MaxStory)
  /\ flowables = story
  /\ template = TintedPageTemplate
  /\ DocInit0
  /\ generator = 1
  /\ _current_doc = NoDoc
  /\ docs = <<>>
  /\ doc_ref = CurrentDoc
  /\ runs = <<>>
  /\ SysInit0

DocNext == HandleFlowable \/ EndBuild

DocSpec == DocInit /\ [][DocNext]_vars

(***************************************************************************)
(* Floats.  Python's float is kept as a binary floating-point number with  *)
(* MantissaBits significant bits instead of 53: [m, e] stands for m * 2^e  *)
(* with 2^(MantissaBits-1) <= |m| < 2^MantissaBits, or m = 0.  Every       *)
(* operation rounds its exact result to nearest, ties to even, as IEEE 754 *)
(* does.                                                                   *)
(***************************************************************************)
MantissaBits == 10

RECURSIVE Pow2(_)
Pow2(n) == IF n <= 0 THEN 1 ELSE 2 * Pow2(n - 1)

RECURSIVE BitLen(_)
BitLen(n) == IF n = 0 THEN 0 ELSE 1 + BitLen(n \div 2)

Abs(n) == IF n < 0 THEN -n ELSE n

Zero == [m |-> 0, e |-> 0]

\* n * 2^e rounded to MantissaBits bits
Round(n, e) ==
  IF n = 0 THEN Zero
  ELSE LET a == Abs(n)
           sgn == IF n < 0 THEN -1 ELSE 1
           k == BitLen(a) - MantissaBits
       IN IF k <= 0
            THEN [m |-> sgn * a * Pow2(-k), e |-> e + k]
            ELSE LET q == a \div Pow2(k)
                     r == a % Pow2(k)
                     half == Pow2(k - 1)
                     q1 == IF r > half \/ (r = half /\ q % 2 = 1) THEN q + 1 ELSE q
                 IN IF q1 = Pow2(MantissaBits)
                      THEN [m |-> sgn * Pow2(MantissaBits - 1), e |-> e + k + 1]
                      ELSE [m |-> sgn * q1, e |-> e + k]

\* the float nearest to num/den: a decimal literal of the source or a JSON number
FromRational(num, den) ==
  IF num = 0 THEN Zero
  ELSE LET a == Abs(num)
           sgn == IF num < 0 THEN -1 ELSE 1
           k == MantissaBits + 2 + BitLen(den) - BitLen(a)
           N == IF k >= 0 THEN a * Pow2(k) ELSE a
           Dn == IF k >= 0 THEN den ELSE den * Pow2(-k)
           sticky == IF N % Dn = 0 THEN 0 ELSE 1
       IN Round(sgn * (2 * (N \div Dn) + sticky), -k - 1)

One == FromRational(1, 1)

Neg(a) == [m |-> -a.m, e |-> a.e]

\* a - b as an exact integer multiple of 2^min(a.e, b.e)
Diff(a, b) ==
  LET e == IF a.e < b.e THEN a.e ELSE b.e
  IN a.m * Pow2(a.e - e) - b.m * Pow2(b.e - e)

\* a + b
Add(a, b) ==
  IF a.m = 0 THEN b
  ELSE IF b.m = 0 THEN a
  ELSE Round(Diff(a, Neg(b)), IF a.e < b.e THEN a.e ELSE b.e)

\* a - b
Sub(a, b) == Add(a, Neg(b))

\* a * b
Mul(a, b) == Round(a.m * b.m, a.e + b.e)

\* comparisons are exact
Less(a, b) ==
  IF a.m = 0 THEN b.m > 0 ELSE IF b.m = 0 THEN a.m < 0 ELSE Diff(a, b) < 0
LessEq(a, b) == a = b \/ Less(a, b)

\* |a - b| <= n units in the last place of b
Within(a, b, n) ==
  IF b.m = 0 THEN a.m = 0
  ELSE IF a.m = 0 THEN Abs(b.m) <= n
  ELSE Abs(Diff(a, b)) <= n * Pow2(b.e - (IF a.e < b.e THEN a.e ELSE b.e))

(***************************************************************************)
(* neat_resume.config and neat_resume.resume: the pydantic models.  A      *)
(* string that the code parses or rewrites is a sequence of characters; an *)
(* optional key of the input document is <<>> when omitted and <<v>> when  *)
(* given.  Lengths are floats, in points.                                  *)
(***************************************************************************)
Given(opt, default) == IF opt = <<>> THEN default ELSE opt[1]

\* reportlab.lib.units.inch as a float
inchF == FromRational(inch, 100)

\* PageSize: the values of the StrEnum, and PageSize.size (reportlab.lib.pagesizes)
PageSize == {"a3", "a4", "a5", "legal", "letter"}

size(paper) ==
  CASE paper = "a3" -> <<FromRational(84189, 100), FromRational(119055, 100)>>
    [] paper = "a4" -> <<FromRational(59528, 100), FromRational(84189, 100)>>
    [] paper = "a5" -> <<FromRational(41953, 100), FromRational(59528, 100)>>
    [] paper = "legal" -> <<FromRational(letter[1], 100), FromRational(100800, 100)>>
    [] paper = "letter" -> <<FromRational(letter[1], 100), FromRational(letter[2], 100)>>

\* reportlab.lib.colors.HexColor(v) on a string: int(v[1:], 16) after "#",
\* int(v[2:], 16) after "0x", int(v, 10) otherwise; ValueError when int fails
HexDigits ==
  {"0", "1", "2", "3", "4", "5", "6", "7", "8", "9", "a", "b", "c", "d", "e", "f"}
DecDigits == {"0", "1", "2", "3", "4", "5", "6", "7", "8", "9"}

IntParses(v, digits) == v # <<>> /\ \A i \in 1..Len(v) : v[i] \in digits

HexColor(v) ==
  IF v # <<>> /\ v[1] = "#" THEN IntParses(Tail(v), HexDigits)
  ELSE IF Len(v) >= 2 /\ v[1] = "0" /\ v[2] = "x"
    THEN IntParses(SubSeq(v, 3, Len(v)), HexDigits)
  ELSE IntParses(v, DecDigits)

\* Color.validate_hex_color: the value is kept when HexColor accepts it
validate_hex_color(v) == HexColor(v)

\* Colors
Colors(frame_left) ==
  [frame_left |-> Given(frame_left, <<"#", "e", "1", "e", "8", "f", "0">>),
   frame_right |-> <<"#", "f", "f", "f", "f", "f", "f">>]

\* Margins
Margins(left, right) ==
  [left |-> Given(left, Mul(FromRational(25, 100), inchF)),
   right |-> Given(right, Mul(FromRational(25, 100), inchF)),
   top |-> Mul(FromRational(25, 100), inchF),
   bottom |-> Mul(FromRational(25, 100), inchF)]

\* Options: every float is accepted
Options(sidebar_size) ==
  [column_gap |-> Mul(FromRational(1, 10), inchF),
   sidebar_size |-> Given(sidebar_size, FromRational(35, 100))]

\* Page
Page(paper, left, right, sidebar_size, frame_left) ==
  [colors |-> Colors(frame_left), margins |-> Margins(left, right),
   paper |-> Given(paper, "letter"), options |-> Options(sidebar_size)]

content_width(p) == Sub(Sub(size(p.paper)[1], p.margins.left), p.margins.right)

\* mutant: the share of the whole page
sidebar_width_ofPage(p) == Mul(size(p.paper)[1], p.options.sidebar_size)

sidebar_width(p) == Mul(content_width(p), p.options.sidebar_size)

main_width(p) == Mul(content_width(p), Sub(One, p.options.sidebar_size))

\* mutant: no upper limit
GpaOk_noUpper(gpa) == gpa = NoGpa \/ 0 <= gpa

\* EducationBlock.gpa: None, or ge=0 and le=4 (gpa in hundredths)
GpaOk(gpa) == gpa = NoGpa \/ (0 <= gpa /\ gpa <= 400)

\* Resume of neat_resume.resume: the collections default to empty
ResumeModel(name, education) ==
  [candidate |-> [name |-> name], summary |-> "summary-short",
   recognitions |-> <<>>, education |-> Given(education, <<>>),
   experience |-> <<>>, skills |-> <<>>, sections |-> <<>>]

\* Styles: the defaults (the input documents of the model give no styles)
Styles == [normal |-> [fontName |-> "Helvetica", textColor |-> <<"#", "0", "0", "0", "0", "0", "0">>]]

\* pathlib.Path(s), for strings without redundant separators: the empty
\* string is the current directory
Path(str) == IF str = <<>> THEN <<".">> ELSE str

\* d.strftime("%Y-%m-%d")
strftime_Ymd(d) ==
  <<YearStr(d.y), "-", Digit(d.m \div 10), Digit(d.m % 10), "-",
    Digit(d.d \div 10), Digit(d.d % 10)>>

\* str.lower() and str.replace(" ", "_") on the characters of the names of the model
lower(str) ==
  [i \in 1..Len(str) |->
     CASE str[i] = "A" -> "a" [] str[i] = "C" -> "c" [] OTHER -> str[i]]

replace(str, old, new) ==
  [i \in 1..Len(str) |-> IF str[i] = old THEN new ELSE str[i]]

\* mutant: the name is used as it is
candidate_name_asGiven(name) == name

\* candidate_name of Config.generate_filename
candidate_name(name) == replace(lower(name), " ", "_")

\* Config.generate_filename: the after-validator assigns self.file when it
\* equals Path()
generate_filename(file, name, day) ==
  IF file = Path(<<>>)
    THEN Path(candidate_name(name) \o <<"_resume_">> \o strftime_Ymd(day) \o <<".pdf">>)
    ELSE file

\* the document validates: the enum, the colors and the numeric ranges
Validates(doc) ==
  /\ doc.paper # <<>> => doc.paper[1] \in PageSize
  /\ doc.frame_left # <<>> => validate_hex_color(doc.frame_left[1])
  /\ \A i \in 1..Len(Given(doc.education, <<>>)) : GpaOk(doc.education[1][i].gpa)

\* Config built from doc: the model, or NoConfig when validation fails
Config(doc, day) ==
  IF Validates(doc)
    THEN [valid |-> TRUE,
          resume |-> ResumeModel(doc.name, doc.education),
          file |-> generate_filename(Path(Given(doc.file, <<>>)), doc.name, day),
          page |-> Page(doc.paper, doc.left, doc.right, doc.sidebar_size, doc.frame_left),
          styles |-> Styles]
    ELSE NoConfig

\* __setattr__ on a Config: a frozen field refuses the assignment
Frozen(name) == name \in {"resume", "page", "styles"}

(***************************************************************************)
(* Input documents.                                                        *)
(***************************************************************************)
NamePool == { <<"A", "l", " ", "C">>, <<"b", "o", "b">> }

DayPool == { [y |-> 2021, m |-> 3, d |-> 7], [y |-> 2022, m |-> 12, d |-> 31] }

GpaPool == {NoGpa, -50, 400, 450}

EducationDocPool ==
  {<<>>, << <<>> >>} \cup {<< <<[gpa |-> g]>> >> : g \in GpaPool}

FilePool ==
  { <<>>, << <<>> >>, << <<"o", "u", "t", ".", "p", "d", "f">> >> }

PaperPool == { <<>>, <<"a3">>, <<"a4">>, <<"tabloid">> }

MarginPool == { <<>>, <<Zero>>, <<Mul(FromRational(1, 10), inchF)>> }

SidebarSizePool ==
  { <<>>, <<FromRational(8, 100)>>, <<Zero>>, <<One>>,
    <<FromRational(3, 2)>>, <<FromRational(-1, 4)>> }

ColorPool ==
  { <<>>, << <<"#", "3", "3", "6", "6", "9", "9">> >>, << <<"#", "1", "2">> >>,
    << <<"b", "l", "u", "e">> >> }

Doc(name, education, file, paper, left, right, sidebar_size, frame_left) ==
  [name |-> name, education |-> education, file |-> file, paper |-> paper,
   left |-> left, right |-> right, sidebar_size |-> sidebar_size,
   frame_left |-> frame_left]

\* the optional keys a document gives
Keys(doc) ==
  {k \in {"education", "file", "paper", "left", "right", "sidebar_size", "frame_left"} :
     doc[k] # <<>>}

DocPool ==
  { Doc(n, ed, f, p, l, r, ss, fl) :
      n \in NamePool, ed \in EducationDocPool, f \in FilePool, p \in PaperPool,
      l \in MarginPool, r \in {<<>>, <<FromRational(36, 1)>>},
      ss \in SidebarSizePool, fl \in ColorPool }

JsonFile(doc) == [exists |-> TRUE, parses |-> TRUE, valid |-> Validates(doc), doc |-> doc]

\* the state of a document that is not being built
DocIdle ==
  /\ symbola = FALSE
  /\ resume_data = EmptyResume
  /\ story = <<>>
  /\ flowables = <<>>
  /\ template = [id |-> "none"]
  /\ DocInit0
  /\ GenInit0

(***************************************************************************)
(* Config used directly: Config built from doc, then an assignment to one of its   *)
(* fields.                                                                 *)
(***************************************************************************)
ConfigInit ==
  /\ pc = "construct"
  /\ json_file \in {JsonFile(doc) : doc \in DocPool}
  /\ today \in DayPool
  /\ argv = <<>>
  /\ config = NoConfig
  /\ calls = <<>>
  /\ printed = <<>>
  /\ exit_code = NotExited
  /\ StyleInit0
  /\ DocIdle

Construct ==
  /\ pc = "construct"
  /\ LET c == Config(json_file.doc, today)
     IN /\ config' = c
        /\ pc' = IF c.valid THEN "constructed" ELSE "failed"
        /\ error' = IF c.valid THEN "" ELSE "ValidationError"
  /\ UNCHANGED <<docvars, stylevars, json_file, argv, today, calls, printed, exit_code>>

\* config.<name> = value, once
SetAttr ==
  /\ pc = "constructed"
  /\ \E name \in {"resume", "file", "page", "styles"} :
       /\ config' = IF Frozen(name) THEN config
                    ELSE [config EXCEPT !.file = <<"x", ".", "p", "d", "f">>]
       /\ error' = IF Frozen(name) THEN "ValidationError" ELSE ""
  /\ pc' = "assigned"
  /\ UNCHANGED <<docvars, stylevars, json_file, argv, today, calls, printed, exit_code>>

ConfigNext == Construct \/ SetAttr

ConfigSpec == ConfigInit /\ [][ConfigNext]_vars

(***************************************************************************)
(* neat_resume.__main__: main(argv).                                       *)
(***************************************************************************)
\* parser.parse_args(argv): the value of -c/--config, <<>> when argparse
\* rejects the command line (the required option missing, no value, or an
\* unrecognized argument)
parse_args(args) ==
  IF Len(args) = 2 /\ args[1] \in {"-c", "--config"} THEN <<args[2]>> ELSE <<>>

ArgvPool ==
  { <<>>, <<"-c">>, <<"resume.json">>, <<"-c", "resume.json">>,
    <<"--config", "resume.json">> }

\* the text in the file is not JSON
MalformedFile == [exists |-> TRUE, parses |-> FALSE, valid |-> FALSE, doc |-> <<>>]

\* the documents that give at most one optional key
CliDocPool == {doc \in DocPool : Cardinality(Keys(doc)) <= 1}

\* mutant: the file is opened without the check
AfterExists_unchecked(file) == "load"

\* config_path.exists(): on to _load_config, or parser.error
AfterExists(file) == IF file.exists THEN "load" ELSE "exited"

CliInit ==
  /\ pc = "parse_args"
  /\ argv \in ArgvPool
  /\ json_file \in {NoFile, MalformedFile} \cup {JsonFile(doc) : doc \in CliDocPool}
  /\ today \in DayPool
  /\ config = NoConfig
  /\ calls = <<>>
  /\ printed = <<>>
  /\ exit_code = NotExited
  /\ StyleInit0
  /\ DocIdle

\* lines 18-28: argparse prints the usage and exits with status 2 on a bad
\* command line
ParseArgs ==
  /\ pc = "parse_args"
  /\ IF parse_args(argv) = <<>>
       THEN /\ printed' = Append(printed, "usage")
            /\ exit_code' = 2
            /\ pc' = "exited"
       ELSE /\ pc' = "exists"
            /\ UNCHANGED <<printed, exit_code>>
  /\ UNCHANGED <<error, docvars, stylevars, json_file, argv, today, config, calls>>

\* lines 30-32: parser.error prints the usage and the message, exits with 2
CheckExists ==
  /\ pc = "exists"
  /\ pc' = AfterExists(json_file)
  /\ IF AfterExists(json_file) = "exited"
       THEN /\ printed' = Append(printed, "usage: config file not found")
            /\ exit_code' = 2
       ELSE UNCHANGED <<printed, exit_code>>
  /\ UNCHANGED <<error, docvars, stylevars, json_file, argv, today, config, calls>>

\* line 34, _load_config: open, read, Config.model_validate_json; an
\* exception is not caught: traceback, exit status 1
LoadConfig ==
  /\ pc = "load"
  /\ calls' = Append(calls, "_load_config")
  /\ LET c == IF json_file.exists /\ json_file.parses
                THEN Config(json_file.doc, today) ELSE NoConfig
         err == IF ~json_file.exists THEN "FileNotFoundError"
                ELSE IF c.valid THEN "" ELSE "ValidationError"
     IN /\ config' = c
        /\ error' = err
        /\ pc' = IF err = "" THEN "generate" ELSE "exited"
        /\ exit_code' = IF err = "" THEN exit_code ELSE 1
        /\ printed' = IF err = "" THEN printed ELSE Append(printed, "Traceback")
  /\ UNCHANGED <<docvars, stylevars, json_file, argv, today>>

\* line 35: Generator(config=resume_config).generate(), which returns or raises
Generate ==
  /\ pc = "generate"
  /\ calls' = Append(calls, "Generator.generate")
  /\ \E returned \in BOOLEAN :
       /\ exit_code' = IF returned THEN 0 ELSE 1
       /\ error' = IF returned THEN "" ELSE "Exception"
       /\ printed' = IF returned THEN printed ELSE Append(printed, "Traceback")
  /\ pc' = "exited"
  /\ UNCHANGED <<docvars, stylevars, json_file, argv, today, config>>

CliNext == ParseArgs \/ CheckExists \/ LoadConfig \/ Generate

CliSpec == CliInit /\ [][CliNext]_vars

(***************************************************************************)
(* programmatic_example.main: load the resume from the JSON file, generate *)
(* the PDF with generate_resume_pdf, report.                               *)
(***************************************************************************)
\* a JSON document that ResumeData.model_validate accepts
ResumeFile(resume) == [exists |-> TRUE, parses |-> TRUE, valid |-> TRUE, doc |-> <<resume>>]

\* a JSON document that ResumeData.model_validate rejects
InvalidFile == [exists |-> TRUE, parses |-> TRUE, valid |-> FALSE, doc |-> <<>>]

\* load_resume_from_json(json_path): the exception it raises, "" when it returns
load_resume_from_json(file) ==
  IF ~file.exists THEN "FileNotFoundError"
  ELSE IF ~file.parses THEN "JSONDecodeError"
  ELSE IF ~file.valid THEN "ValidationError"
  ELSE ""

\* mutant: the handlers print and main returns normally
ExitStatus_zero(err) == 0

\* the except clauses of main: each ends in sys.exit(1)
ExitStatus(err) == 1

\* the first line each except clause prints
ErrorMessage(err) ==
  CASE err = "FileNotFoundError" -> "Error"
    [] err = "JSONDecodeError" -> "JSON Parse Error"
    [] OTHER -> "Unexpected Error"

MainInit ==
  /\ pc = "main"
  /\ symbola \in BOOLEAN
  /\ \/ json_file \in {NoFile, MalformedFile, InvalidFile}
     \/ \E c \in CandidatePool, s \in SummaryPool :
        LET n == MaxEntries - (IF c.address # "" THEN 1 ELSE 0)
                            - (IF s \in LongTexts THEN 1 ELSE 0) IN
        \E sk \in SkillMaps(n) :
        \E ed \in SeqsUpTo(EducationPool, n - Len(sk)) :
        \E ce \in SeqsUpTo(CertificationPool, n - Len(sk) - Len(ed)) :
        \E ex \in SeqsUpTo(ExperiencePool, n - Len(sk) - Len(ed) - Len(ce)) :
        \E cu \in {NoSections} \cup
                  {Sections(i) : i \in SectionMaps(
                       n - Len(sk) - Len(ed) - Len(ce) - Len(ex))} :
          json_file = ResumeFile(Resume(c, s, sk, ed, ce, ex, cu))
  /\ resume_data = EmptyResume
  /\ story = <<>>
  /\ flowables = <<>>
  /\ template = [id |-> "none"]
  /\ DocInit0
  /\ GenInit0
  /\ argv = <<>>
  /\ today = NoDay
  /\ config = NoConfig
  /\ calls = <<>>
  /\ printed = <<>>
  /\ exit_code = NotExited
  /\ StyleInit0

\* lines 43-63: the resume is loaded and the output file named; an
\* exception leaves the try block
Load ==
  /\ pc = "main"
  /\ LET err == load_resume_from_json(json_file)
     IN /\ error' = err
        /\ pc' = IF err = "" THEN "start" ELSE "raised"
        /\ resume_data' = IF err = "" THEN json_file.doc[1] ELSE resume_data
        /\ printed' = printed \o <<"Converting", "Loading">>
                      \o (IF err = "" THEN <<"Successfully loaded", "Generating PDF">> ELSE <<>>)
  /\ UNCHANGED <<symbola, story, flowables, template, page, frame, y, hanging, pages,
                 _last_page, _last_frame, _left_column_finished,
                 _in_left_column_content, page_number, placed, painted, outfile,
                 generator, _current_doc, doc_ref, docs, runs>>
  /\ UNCHANGED <<stylevars, json_file, argv, today, config, calls, exit_code>>

\* lines 68-81: generate_resume_pdf has returned; the success messages, the
\* size of the file, the summary, and main returns
Report ==
  /\ pc = "done"
  /\ printed' = printed \o <<"PDF generated successfully!", "File", "Size", "Resume Summary">>
  /\ exit_code' = 0
  /\ pc' = "exited"
  /\ UNCHANGED <<error, docvars, stylevars, json_file, argv, today, config, calls>>

\* lines 83-98: the except clauses
Except ==
  /\ pc = "raised"
  /\ printed' = Append(printed, ErrorMessage(error))
  /\ exit_code' = ExitStatus(error)
  /\ pc' = "exited"
  /\ UNCHANGED <<error, docvars, stylevars, json_file, argv, today, config, calls>>

MainNext == Load \/ GeneratePdf \/ HandleFlowable \/ EndBuild \/ Report \/ Except

MainSpec == MainInit /\ [][MainNext]_vars

(***************************************************************************)
(* Several calls of generate_pdf, one after the other, on the same         *)
(* ResumeGenerator or on a new one.  Every call is given an output_path of *)
(* its own.                                                                *)
(***************************************************************************)
MaxCalls == 3

\* a resume that fits one page, one whose sidebar overflows, one whose main
\* column runs over to a second page
CallPool ==
  LET c == EmptyResume.candidate_info
      msc == CHOOSE e \in EducationPool : e.degree = "MSc"
      eng == CHOOSE e \in ExperiencePool : e.position = "Engineer"
  IN { EmptyResume,
       Resume(c, "summary-long", <<>>, <<msc, msc>>, <<>>, <<>>, NoSections),
       Resume(c, "summary-short", <<>>, <<>>, <<>>, <<eng, eng, eng>>, NoSections) }

\* what a call that has ended is remembered by
RunRecord ==
  [generator |-> generator, resume_data |-> resume_data, doc_ref |-> doc_ref,
   story |-> story, pc |-> pc, error |-> error, page_number |-> page_number,
   pages |-> pages, placed |-> placed, outfile |-> outfile]

\* the flags of the document of the call that has ended
DocFlags ==
  [_left_column_finished |-> _left_column_finished,
   _in_left_column_content |-> _in_left_column_content]

\* mutant: the new document starts with the flags of the one before
NewDocFlags_kept(old) == old

\* ColumnAwareDoc.__init__ (lines 56-57): the flags of a new document,
\* whatever those of the document before it
NewDocFlags(old) ==
  [_left_column_finished |-> FALSE, _in_left_column_content |-> FALSE]

GenInit ==
  /\ pc = "start"
  /\ symbola \in BOOLEAN
  /\ resume_data \in CallPool
  /\ story = <<>>
  /\ flowables = <<>>
  /\ template = [id |-> "none"]
  /\ DocInit0
  /\ GenInit0
  /\ SysInit0

\* generate_pdf called after an earlier call has returned or raised, up to
\* doc.build(story): a fresh ColumnAwareDoc (lines 257-264, 52-57), bound
\* to self._current_doc (line 267), and the story of the resume given
GeneratePdfAgain ==
  /\ pc \in {"done", "raised"}
  /\ Len(runs) < MaxCalls - 1
  /\ runs' = Append(runs, RunRecord)
  /\ docs' = Append(docs, DocFlags)
  /\ \E r \in CallPool, g \in {generator, generator + 1} :
       /\ resume_data' = r
       /\ generator' = g
       /\ story' = BuildStory(r)
       /\ flowables' = BuildStory(r)
       /\ _current_doc' = CurrentDoc + 1
       /\ doc_ref' = MarkerDoc(IF g = generator THEN _current_doc ELSE NoDoc,
                               CurrentDoc + 1)
  /\ pc' = "build"
  /\ template' = TintedPageTemplate
  /\ page' = 0
  /\ frame' = NoFrame
  /\ y' = 0
  /\ hanging' = TRUE
  /\ pages' = 0
  /\ _last_page' = 1
  /\ _last_frame' = 0
  /\ _left_column_finished' = NewDocFlags(DocFlags)._left_column_finished
  /\ _in_left_column_content' = NewDocFlags(DocFlags)._in_left_column_content
  /\ error' = ""
  /\ page_number' = 0
  /\ placed' = <<>>
  /\ painted' = <<>>
  /\ outfile' = "absent"
  /\ UNCHANGED symbola
  /\ UNCHANGED sysvars

GenNext == GeneratePdf \/ HandleFlowable \/ EndBuild \/ GeneratePdfAgain

GenSpec == GenInit /\ [][GenNext]_vars

(***************************************************************************)
(* neat_resume.styles: StyleFont, Color and the paragraph style factories, *)
(* and PageSize.size, each used on its own.  Font names are sequences of   *)
(* one-character strings.  The name of a ParagraphStyle (uuid4().hex) is   *)
(* left out.                                                               *)
(***************************************************************************)
LowerLetters ==
  <<"a", "b", "c", "d", "e", "f", "g", "h", "i", "j", "k", "l", "m",
    "n", "o", "p", "q", "r", "s", "t", "u", "v", "w", "x", "y", "z">>
UpperLetters ==
  <<"A", "B", "C", "D", "E", "F", "G", "H", "I", "J", "K", "L", "M",
    "N", "O", "P", "Q", "R", "S", "T", "U", "V", "W", "X", "Y", "Z">>

IndexIn(letters, c) ==
  IF \E i \in 1..Len(letters) : letters[i] = c
    THEN CHOOSE i \in 1..Len(letters) : letters[i] = c
    ELSE 0

IsCased(c) == IndexIn(LowerLetters, c) # 0 \/ IndexIn(UpperLetters, c) # 0
upperChar(c) == IF IndexIn(LowerLetters, c) # 0 THEN UpperLetters[IndexIn(LowerLetters, c)] ELSE c
lowerChar(c) == IF IndexIn(UpperLetters, c) # 0 THEN LowerLetters[IndexIn(UpperLetters, c)] ELSE c

\* str.title(): a cased character is upper-cased when it follows an uncased
\* one (or starts the string) and lower-cased otherwise
title(str) ==
  [i \in 1..Len(str) |->
     IF i = 1 \/ ~IsCased(str[i - 1]) THEN upperChar(str[i]) ELSE lowerChar(str[i])]

\* StyleFont: the members, and the value enum.auto() gives a StrEnum member
\* (its name in lower case)
StyleFont ==
  {"HELVETICA", "HELVETICA_BOLD", "HELVETICA_OBLIQUE", "HELVETICA_BOLDOBLIQUE", "SYMBOLA"}

value(member) ==
  CASE member = "HELVETICA" -> <<"h", "e", "l", "v", "e", "t", "i", "c", "a">>
    [] member = "HELVETICA_BOLD" ->
         <<"h", "e", "l", "v", "e", "t", "i", "c", "a", "_", "b", "o", "l", "d">>
    [] member = "HELVETICA_OBLIQUE" ->
         <<"h", "e", "l", "v", "e", "t", "i", "c", "a", "_",
           "o", "b", "l", "i", "q", "u", "e">>
    [] member = "HELVETICA_BOLDOBLIQUE" ->
         <<"h", "e", "l", "v", "e", "t", "i", "c", "a", "_",
           "b", "o", "l", "d", "o", "b", "l", "i", "q", "u", "e">>
    [] member = "SYMBOLA" -> <<"s", "y", "m", "b", "o", "l", "a">>

\* StyleFont.font_name
font_name(member) == replace(title(value(member)), "_", "-")

\* int(digits, 16)
HexDigitValue(c) ==
  CASE c \in {"a", "A"} -> 10 [] c \in {"b", "B"} -> 11 [] c \in {"c", "C"} -> 12
    [] c \in {"d", "D"} -> 13 [] c \in {"e", "E"} -> 14 [] c \in {"f", "F"} -> 15
    [] OTHER -> CHOOSE n \in 0..9 : Digit(n) = c

RECURSIVE HexInt(_)
HexInt(digits) ==
  IF digits = <<>> THEN 0
  ELSE 16 * HexInt(SubSeq(digits, 1, Len(digits) - 1)) + HexDigitValue(digits[Len(digits)])

\* Color.hex_color: colors.HexColor(hex_string), the red, green and blue of
\* the number after "#" (each out of 255)
hex_color(color) ==
  LET n == HexInt(Tail(color.hex_string))
  IN [red |-> (n \div 65536) % 256, green |-> (n \div 256) % 256, blue |-> n % 256]

Color(hex_string) == [hex_string |-> hex_string]

TA_LEFT == 0

\* the permitted integer values of Alignment (line 18)
Alignment == {0, 1, 2, 4}

\* BaseStyleFactory built with the keyword arguments given (each <<>> when
\* left out); a subclass is the same with other defaults
BaseStyleFactory(alignment, font, textColor) ==
  [made |-> TRUE,
   alignment |-> Given(alignment, TA_LEFT),
   fontName |-> font_name(Given(font, "HELVETICA")),
   fontSize |-> 9, leading |-> 11, leftIndent |-> 0, rightIndent |-> 0,
   spaceAfter |-> 0, spaceBefore |-> 0,
   textColor |-> Given(textColor, Color(<<"#", "0", "0", "0", "0", "0", "0">>))]

\* the truth value Python gives an optional integer: None is false and so
\* is 0
Truthy(opt) == opt # <<>> /\ opt[1] # 0

\* the truth value of an optional Color: None is false, a pydantic model
\* (no __bool__, no __len__) is true
TruthyModel(opt) == opt # <<>>

\* BaseStyleFactory.get_style (lines 73-89)
get_style(self, alignment, textColor) ==
  [made |-> TRUE,
   alignment |-> IF Truthy(alignment) THEN alignment[1] ELSE self.alignment,
   fontName |-> self.fontName, fontSize |-> self.fontSize, leading |-> self.leading,
   leftIndent |-> self.leftIndent, rightIndent |-> self.rightIndent,
   spaceAfter |-> self.spaceAfter, spaceBefore |-> self.spaceBefore,
   textColor |-> IF TruthyModel(textColor) THEN hex_color(textColor[1])
                 ELSE hex_color(self.textColor)]

StyleColorPool ==
  { <<>>, << Color(<<"#", "5", "0", "5", "0", "5", "0">>) >>,
    << Color(<<"#", "e", "1", "e", "8", "f", "0">>) >> }

StyleInit ==
  /\ pc = "styles"
  /\ error = ""
  /\ DocIdle
  /\ SysInit0

\* a factory is constructed
MakeFactory ==
  /\ pc = "styles"
  /\ factory = NoFactory
  /\ \E a \in {<<>>} \cup {<<v>> : v \in Alignment},
        f \in {<<>>} \cup {<<m>> : m \in StyleFont},
        c \in StyleColorPool :
       factory' = BaseStyleFactory(a, f, c)
  /\ UNCHANGED <<pc, error, docvars, style_args, style, dims>>
  /\ UNCHANGED <<json_file, argv, today, config, calls, printed, exit_code>>

\* get_style is called on the factory
GetStyle ==
  /\ pc = "styles"
  /\ factory # NoFactory
  /\ \E a \in {<<>>} \cup {<<v>> : v \in Alignment}, c \in StyleColorPool :
       /\ style_args' = [alignment |-> a, textColor |-> c]
       /\ style' = get_style(factory, a, c)
  /\ UNCHANGED <<pc, error, docvars, factory, dims>>
  /\ UNCHANGED <<json_file, argv, today, config, calls, printed, exit_code>>

\* the size of a PageSize member is read
Size ==
  /\ pc = "styles"
  /\ \E paper \in PageSize : dims' = [paper |-> paper, size |-> size(paper)]
  /\ UNCHANGED <<pc, error, docvars, factory, style_args, style>>
  /\ UNCHANGED <<json_file, argv, today, config, calls, printed, exit_code>>

StyleNext == MakeFactory \/ GetStyle \/ Size

StyleSpec == StyleInit /\ [][StyleNext]_vars

(***************************************************************************)
(* Properties.                                                             *)
(***************************************************************************)
Overflowed == error = "LeftColumnOverflowError"

\* the story has been built
Built == pc # "start"

\* positions of the story before the marker (the sidebar part)
MarkerAt == CHOOSE i \in 1..Len(story) : story[i].kind = "Marker"
SidebarPart == SubSeq(story, 1, MarkerAt - 1)

Has(text, piece) == \E i \in 1..Len(text) : text[i] = piece
EndsWith(text, tail) ==
  /\ Len(text) >= Len(tail)
  /\ SubSeq(text, Len(text) - Len(tail) + 1, Len(text)) = tail

\* a story in which no FrameBreak comes before the first marker, as in the
\* stories of generate_pdf
MarkerBeforeBreak ==
  \A i \in 1..Len(story) :
    story[i].kind = "FrameBreak" => \E j \in 1..(i - 1) : story[j].kind = "Marker"

\* C1: whenever the engine is in the main frame before the marker has been
\* processed, LeftColumnOverflowError has been raised: no state has the main
\* frame current, the marker unprocessed and no error, the first flowable
\* not fitting the sidebar included; so nothing is placed in the main frame
\* before the marker.
C1_NoSilentSpill ==
  MarkerBeforeBreak =>
    /\ ~(frame = 1 /\ ~_left_column_finished /\ error = "")
    /\ \A i \in 1..Len(placed) : placed[i].frame = 1 => _left_column_finished

\* C2: a raised LeftColumnOverflowError carries the page number of the page
\* on which the sidebar-to-main transition was detected (the document's
\* page, the count of the pages begun); it is 1 when the sidebar of the
\* first page overflowed (no page has been shown yet).
C2_PageNumber ==
  Overflowed =>
    /\ page_number = page
    /\ page_number = Len(painted)
    /\ pages = 0 => page_number = 1

C2_Witness ==
  /\ Overflowed
  /\ page_number = 1
  /\ placed # <<>>
  /\ placed[Len(placed)].frame = 0

\* C3: overflow is fatal: once LeftColumnOverflowError is raised the run is
\* in its raised state, nothing more is placed or handled, and it stays so.
C3_OverflowFatal ==
  /\ [](Overflowed => pc = "raised")
  /\ [][Overflowed => UNCHANGED <<pc, error, page_number, placed, flowables>>]_vars

C3_Witness == Overflowed /\ pc = "raised" /\ flowables # <<>> /\ story # <<>>

\* C4: after the column break every later flowable (work experience, custom
\* sections) is placed in a main frame, on whatever page; none is placed in
\* a sidebar frame.
C4_OneWayBreak ==
  \A i \in 1..Len(placed) :
    placed[i].fl.sec \in {"experience", "custom"} => placed[i].frame = 1

\* the order of the sidebar builders the claim states, and the code's
ClaimedRank(sec) ==
  CASE sec = "header" -> 1 [] sec = "summary" -> 2 [] sec = "contact" -> 3
    [] sec = "education" -> 4 [] sec = "certifications" -> 5
    [] sec = "skills" -> 6 [] OTHER -> 0

CodeRank(sec) ==
  CASE sec = "header" -> 1 [] sec = "summary" -> 2 [] sec = "contact" -> 3
    [] sec = "skills" -> 4 [] sec = "education" -> 5
    [] sec = "certifications" -> 6 [] OTHER -> 0

\* C5 as stated: the sidebar part is appended in the order header, summary,
\* contact, education, certifications, skills.
C5_ClaimedOrder ==
  Built => LET sp == SidebarPart IN
           \A i \in 1..(Len(sp) - 1) :
             ClaimedRank(sp[i].sec) <= ClaimedRank(sp[i + 1].sec)

\* C5 amended: the sidebar part is appended in the order header, summary,
\* contact, skills, education, certifications, and holds nothing else.
C5_SidebarOrder ==
  Built => LET sp == SidebarPart IN
           /\ \A i \in 1..Len(sp) : CodeRank(sp[i].sec) > 0
           /\ \A i \in 1..(Len(sp) - 1) :
                CodeRank(sp[i].sec) <= CodeRank(sp[i + 1].sec)

C5_Witness ==
  /\ Built
  /\ resume_data.skills # <<>>
  /\ resume_data.education # <<>>
  /\ resume_data.certifications # <<>>
  /\ LET sp == SidebarPart IN
     \E i, j, k \in 1..Len(sp) :
       /\ i < j /\ j < k
       /\ sp[i].sec = "skills" /\ sp[i].entry = 1
       /\ sp[j].sec = "education" /\ sp[j].entry = 1
       /\ sp[k].sec = "certifications" /\ sp[k].entry = 1

NoneOf(sec) == \A i \in 1..Len(story) : story[i].sec # sec

\* C6: a built-in section whose collection is empty has no header and no
\* content in the story (skills, education, certifications, work experience).
C6_SectionOmission ==
  Built => /\ resume_data.skills = <<>> => NoneOf("skills")
           /\ resume_data.education = <<>> => NoneOf("education")
           /\ resume_data.certifications = <<>> => NoneOf("certifications")
           /\ resume_data.work_experience = <<>> => NoneOf("experience")

\* C7: an absent or empty custom_sections mapping gives no header, and a
\* custom section with no blocks gives no header and no content.
C7_CustomOmission ==
  Built =>
    /\ (~resume_data.custom_sections.some \/ resume_data.custom_sections.items = <<>>)
         => NoneOf("custom")
    /\ \A s \in 1..Len(resume_data.custom_sections.items) :
         resume_data.custom_sections.items[s].blocks = <<>>
           => ~\E i \in 1..Len(story) : story[i].sec = "custom" /\ story[i].entry = s

\* the paragraphs of the dates of entry k of a section
DatesOf(sec, k) ==
  { i \in 1..Len(story) :
      story[i].sec = sec /\ story[i].entry = k /\ story[i].role = "dates" }

ExperienceDatesOk ==
  \A k \in 1..Len(resume_data.work_experience) :
    LET e == resume_data.work_experience[k] IN
    /\ Cardinality(DatesOf("experience", k)) = 1
    /\ \A i \in DatesOf("experience", k) :
         /\ SubSeq(story[i].text, 3, 5)
              = <<MonthAbbr(e.start_date.m), " ", YearStr(e.start_date.y)>>
         /\ IF e.end_date = NoDate
              THEN EndsWith(story[i].text, <<" - ", "Present">>)
              ELSE /\ EndsWith(story[i].text,
                        <<" - ", MonthAbbr(e.end_date.m), " ", YearStr(e.end_date.y)>>)
                   /\ ~Has(story[i].text, "Present")

EducationDatesOk ==
  \A k \in 1..Len(resume_data.education) :
    LET e == resume_data.education[k] IN
    /\ Cardinality(DatesOf("education", k)) = 1
    /\ \A i \in DatesOf("education", k) :
         story[i].text = <<YearStr(e.start_date.y), " - ",
                           IF e.end_date = NoDate THEN "Present"
                                                  ELSE YearStr(e.end_date.y)>>

\* C8 as stated, for certifications: with the expiry date absent the dates
\* text holds "Present", otherwise the expiry year.
CertificationDatesClaimed ==
  \A k \in 1..Len(resume_data.certifications) :
    LET c == resume_data.certifications[k] IN
    \E i \in DatesOf("certifications", k) :
      IF c.expiry_date = NoDate
        THEN Has(story[i].text, "Present")
        ELSE EndsWith(story[i].text, <<YearStr(c.expiry_date.y)>>)

\* what the code renders for a certification
CertificationDatesOk ==
  \A k \in 1..Len(resume_data.certifications) :
    LET c == resume_data.certifications[k] IN
    /\ Cardinality(DatesOf("certifications", k))
         = (IF c.issue_date = NoDate THEN 0 ELSE 1)
    /\ \A i \in DatesOf("certifications", k) :
         /\ ~Has(story[i].text, "Present")
         /\ story[i].text =
              IF c.expiry_date = NoDate
                THEN <<YearStr(c.issue_date.y)>>
                ELSE <<YearStr(c.issue_date.y), " - ", YearStr(c.expiry_date.y)>>

\* C8 as stated: experience, education and certification entries alike
\* render "Present" for an absent end date and the end date otherwise,
\* month+year for experience and year only for education/certification.
C8_UniformDates ==
  Built => ExperienceDatesOk /\ EducationDatesOk /\ CertificationDatesClaimed

\* C8 amended: experience and education entries render "Present" for an
\* absent end date and the end date otherwise (abbreviated month+year for
\* experience, year only for education); a certification renders its issue
\* year when it has an issue date, followed by " - " and the expiry year
\* when it has an expiry date, and never "Present".
C8_Dates ==
  Built => ExperienceDatesOk /\ EducationDatesOk /\ CertificationDatesOk

C8_Witness ==
  /\ Built
  /\ \E k \in 1..Len(resume_data.work_experience) :
       resume_data.work_experience[k].end_date = NoDate
  /\ \E k \in 1..Len(resume_data.work_experience) :
       resume_data.work_experience[k].end_date # NoDate
  /\ \E k \in 1..Len(resume_data.certifications) :
       /\ resume_data.certifications[k].expiry_date = NoDate
       /\ DatesOf("certifications", k) # {}

\* C9: the sidebar frame starts at the left margin and is the sidebar width
\* less the gap wide; the main frame starts at left margin + sidebar width
\* + gap and is the main width less the gap wide (sidebar 34%, main 66% of
\* the content width, gap 0.1 inch); the frames do not overlap and the main
\* frame ends at or before page width - right margin.
C9_FrameGeometry ==
  Built =>
    LET W == letter[1] - 2 * (inch \div 4)
        gap == inch \div 10
        L == template.frames[1]
        R == template.frames[2]
    IN /\ L.id = "left_col" /\ R.id = "right_col"
       /\ L.x1 = inch \div 4
       /\ 100 * (L.width + gap) = 34 * W
       /\ R.x1 = L.x1 + (L.width + gap) + gap
       /\ 100 * (R.width + gap) = 66 * W
       /\ L.x1 + L.width <= R.x1
       /\ R.x1 + R.width <= letter[1] - inch \div 4

C9_Witness ==
  /\ Built
  /\ \E i \in 1..Len(placed) : placed[i].frame = 0
  /\ \E i \in 1..Len(placed) : placed[i].frame = 1

\* C10 as stated: every page's sidebar rectangle spans x from 0 to
\* left_margin + sidebar_width exactly, and y from 0 to the page height.
C10_ExactBoundary ==
  \A i \in 1..Len(painted) :
    /\ painted[i].x = 0 /\ painted[i].y = 0
    /\ painted[i].height = letter[2]
    /\ painted[i].width = template.left_margin + template.left_col_width

\* C10 amended: every page's sidebar rectangle spans x from 0 to
\* left_margin + sidebar_width + 0.05 inch (a small overlap into the gap),
\* and y from 0 to the page height.
C10_SidebarRect ==
  \A i \in 1..Len(painted) :
    /\ painted[i].page = i
    /\ painted[i].x = 0 /\ painted[i].y = 0
    /\ painted[i].height = letter[2]
    /\ painted[i].width = inch \div 4 + (34 * (letter[1] - 2 * (inch \div 4))) \div 100
                          + inch \div 20

C10_Witness == Len(painted) >= 2 /\ page = 2

\* the rectangles painted for page p
RectsOf(p) == {i \in 1..Len(painted) : painted[i].page = p}

\* every flowable drawn on a page was drawn with that page's painting
\* already on the canvas
PaintedFirst ==
  \A i \in 1..Len(placed) :
    /\ placed[i].page \in 1..page
    /\ placed[i].rects >= placed[i].page

\* C11 (as claimed): for every page of a build the page callback paints two
\* background rectangles, a sidebar tint and a main tint, before any
\* flowable is drawn on that page.
C11_TwoTints ==
  /\ \A p \in 1..page : Cardinality(RectsOf(p)) = 2
  /\ PaintedFirst

\* C11 (amended): for every page of a build the page callback paints one
\* background rectangle, the sidebar tint, and no main tint; it is painted
\* when the page begins, before any flowable is drawn on that page.
C11_SidebarTint ==
  /\ \A p \in 1..page :
       /\ Cardinality(RectsOf(p)) = 1
       /\ painted[p].page = p
       /\ painted[p].color = "#e1e8f0"
  /\ Len(painted) = page
  /\ PaintedFirst

C11_Witness ==
  /\ page = 2
  /\ \E i \in 1..Len(placed) : placed[i].page = 2
  /\ \E i \in 1..Len(placed) : placed[i].page = 1

\* C20: when generation fails inside doc.build, no partial output file is
\* left at the output path: whatever the failure, the path holds nothing
\* written by the failed run (written elsewhere and renamed on success, or
\* removed on failure).
C20_NoPartialOutput == pc = "raised" => outfile = "absent"

\* the split ratio of the constructed Config's page
Ratio == config.page.options.sidebar_size

\* C12 (as claimed): for a constructed Page, main_width is content_width -
\* sidebar_width, sidebar_width + main_width is content_width, and with the
\* column gap added the sum exceeds content_width by at most one gap (the
\* two widths together do not exceed content_width).
C12_WidthsExact ==
  config.valid =>
    LET p == config.page
        cw == content_width(p)
        sw == sidebar_width(p)
        mw == main_width(p)
    IN /\ mw = Sub(cw, sw)
       /\ Add(sw, mw) = cw
       /\ LessEq(Add(sw, mw), cw)

\* C12 (amended): content_width is page width - left margin - right margin,
\* sidebar_width is content_width x r and main_width is content_width x
\* (1 - r), each rounded as floats are; for 0 <= r <= 1 their float sum is
\* within 2 units in the last place of content_width.
C12_Widths ==
  config.valid =>
    LET p == config.page
        cw == content_width(p)
        sw == sidebar_width(p)
        mw == main_width(p)
    IN /\ cw = Sub(Sub(size(p.paper)[1], p.margins.left), p.margins.right)
       /\ sw = Mul(cw, Ratio)
       /\ mw = Mul(cw, Sub(One, Ratio))
       /\ (LessEq(Zero, Ratio) /\ LessEq(Ratio, One)) => Within(Add(sw, mw), cw, 2)

\* a page whose main_width is not the float content_width - sidebar_width
C12_Witness ==
  /\ config.valid
  /\ config.page.paper = "a3"
  /\ Less(Zero, Ratio) /\ Less(Ratio, One)
  /\ main_width(config.page) # Sub(content_width(config.page), sidebar_width(config.page))
  /\ Add(sidebar_width(config.page), main_width(config.page)) # content_width(config.page)

\* the input document of the run
InputDoc == json_file.doc

\* C13: the split ratio is constrained to the open interval (0,1): every
\* constructed configuration has 0 < ratio < 1 and strictly positive
\* sidebar and main widths (a ratio <= 0 or >= 1 fails validation).
C13_RatioOpenInterval ==
  config.valid =>
    /\ Less(Zero, Ratio) /\ Less(Ratio, One)
    /\ Less(Zero, sidebar_width(config.page))
    /\ Less(Zero, main_width(config.page))

\* the gpa values of the education blocks the input document gives
InputGpas ==
  LET ed == Given(InputDoc.education, <<>>) IN {ed[i].gpa : i \in 1..Len(ed)}

\* C14: every constructed EducationBlock has gpa absent or within [0,4], and
\* constructing one with gpa < 0 or gpa > 4 fails at construction: no model
\* is produced.
C14_GpaRange ==
  /\ config.valid =>
       \A i \in 1..Len(config.resume.education) :
         LET gpa == config.resume.education[i].gpa
         IN gpa = NoGpa \/ (gpa >= 0 /\ gpa <= 400)
  /\ (pc # "construct" /\ \E g \in InputGpas : g # NoGpa /\ (g < 0 \/ g > 400)) =>
       /\ ~config.valid
       /\ pc = "failed"
       /\ error = "ValidationError"

C14_Witness ==
  /\ pc = "failed"
  /\ InputGpas = {450}
  /\ InputDoc.paper = <<>> /\ InputDoc.frame_left = <<>>
  /\ ~config.valid

\* the file name expected for the names and days of the model
ExpectedName ==
  (IF InputDoc.name = <<"A", "l", " ", "C">> THEN <<"a", "l", "_", "c">> ELSE <<"b", "o", "b">>)
  \o <<"_resume_">>
  \o (IF today.y = 2021 THEN <<"2021", "-", "0", "3", "-", "0", "7">>
      ELSE <<"2022", "-", "1", "2", "-", "3", "1">>)
  \o <<".pdf">>

\* the input gives candidate and summary only: the collections are empty or
\* omitted, and there is no page, styles or file
MinimalInput ==
  /\ Keys(InputDoc) \subseteq {"education"}
  /\ Given(InputDoc.education, <<>>) = <<>>

DefaultsApplied ==
  /\ config.valid
  /\ config.resume.recognitions = <<>> /\ config.resume.education = <<>>
  /\ config.resume.experience = <<>> /\ config.resume.skills = <<>>
  /\ config.resume.sections = <<>>
  /\ config.page.paper = "letter"
  /\ \A side \in {"left", "right", "top", "bottom"} :
       config.page.margins[side] = FromRational(18, 1)
  /\ config.file = ExpectedName

\* C15 (as claimed): from an input with candidate and summary only the
\* Config is constructed with empty collections, LETTER paper, 0.25 inch
\* margins and file <name lower-cased, spaces as underscores>_resume_<today
\* as YYYY-MM-DD>.pdf; and a file that is supplied is kept unchanged.
C15_Defaults ==
  pc \in {"constructed", "failed"} =>
    /\ MinimalInput => DefaultsApplied
    /\ (config.valid /\ InputDoc.file # <<>>) => config.file = Path(InputDoc.file[1])

\* C15 (amended): as claimed for the defaults; a supplied file is kept
\* unchanged unless it is the empty path (Path(), the current directory),
\* which counts as not supplied and is replaced by the generated name.
C15_DefaultsAndFile ==
  pc \in {"constructed", "failed"} =>
    /\ MinimalInput => DefaultsApplied
    /\ (config.valid /\ InputDoc.file # <<>> /\ InputDoc.file[1] # <<>>) =>
         config.file = InputDoc.file[1]
    /\ (config.valid /\ InputDoc.file # <<>> /\ InputDoc.file[1] = <<>>) =>
         config.file = ExpectedName

C15_Witness ==
  /\ pc = "constructed"
  /\ Keys(InputDoc) = {}
  /\ InputDoc.name = <<"A", "l", " ", "C">>
  /\ config.file = <<"a", "l", "_", "c", "_resume_", "2022", "-", "1", "2", "-", "3", "1", ".pdf">>

\* C16: all model fields are immutable after construction: once a Config is
\* constructed, none of its fields, Config.file included, is reassigned or
\* changes value.
C16_Immutable == [][(config.valid /\ config'.valid) => config' = config]_vars

\* a hex color: "#" and six hexadecimal digits
IsHexColor(v) == Len(v) = 7 /\ v[1] = "#" /\ IntParses(Tail(v), HexDigits)

\* the page-size name and the color of the input document are valid
ValidPageInput ==
  /\ InputDoc.paper # <<>> => InputDoc.paper[1] \in {"a3", "a4", "a5", "legal", "letter"}
  /\ InputDoc.frame_left # <<>> => IsHexColor(InputDoc.frame_left[1])

\* C17: a page-size name outside {a3, a4, a5, legal, letter} or a string
\* that is not a valid hex color makes Config construction fail: no Config
\* is produced and the generator is never invoked for that input.
C17_ConfigErrors ==
  /\ config.valid => ValidPageInput
  /\ (\E i \in 1..Len(calls) : calls[i] = "Generator.generate") => ValidPageInput

ErrorMessages == {"Error", "JSON Parse Error", "Unexpected Error"}

\* C19: in programmatic_example.main every failure (file not found,
\* malformed JSON, validation failure, LeftColumnOverflowError or any other
\* exception while loading or generating) ends the process with a non-zero
\* exit status after an error message has been printed, and the success
\* message is printed only when generate_resume_pdf returned without raising.
C19_FailuresExit ==
  /\ (pc = "exited" /\ error # "") =>
       /\ exit_code # 0
       /\ printed[Len(printed)] \in ErrorMessages
  /\ exit_code \notin {NotExited, 0} => error # ""
  /\ (\E i \in 1..Len(printed) : printed[i] = "PDF generated successfully!") =>
       /\ outfile = "written"
       /\ flowables = <<>>
       /\ error \notin {"LeftColumnOverflowError", "LayoutError", "OSError"}
  /\ pc = "raised" => error # ""

C19_Witness ==
  /\ pc = "exited"
  /\ error = "LeftColumnOverflowError"
  /\ exit_code = 1
  /\ printed[Len(printed)] = "Unexpected Error"
  /\ outfile = "absent"

\* the run of generate_pdf has ended: it returned or an exception left it
Ended == pc \in {"done", "raised"}

EndedRuns == IF Ended THEN Append(runs, RunRecord) ELSE runs

\* the layout a call produced: the error of the layout if any, its page
\* number, the pages shown and every flowable drawn with its page and frame
Layout(r) ==
  [error |-> IF r.error = "OSError" THEN "" ELSE r.error,
   page_number |-> r.page_number, pages |-> r.pages, placed |-> r.placed]

\* C22: two calls of generate_pdf on identical resume data, on the same or
\* on different ResumeGenerator instances, build the same story (the same
\* flowables with the same text, in the same order, with the same column
\* break) and lay it out the same way: the same pages with the same
\* flowables in the same frames, or the same LeftColumnOverflowError with
\* the same page number; when the final write of the file succeeds in both
\* or fails in both they end the same way.
C22_Deterministic ==
  \A i, j \in 1..Len(EndedRuns) :
    LET a == EndedRuns[i]
        b == EndedRuns[j]
    IN a.resume_data = b.resume_data =>
         /\ a.story = b.story
         /\ Layout(a) = Layout(b)
         /\ (a.outfile = b.outfile) => (a.pc = b.pc /\ a.error = b.error)

\* the same overflowing resume given to two instances, with a two-page
\* resume between the two calls
C22_Witness ==
  /\ Len(EndedRuns) = 3
  /\ EndedRuns[1].resume_data = EndedRuns[3].resume_data
  /\ EndedRuns[1].generator # EndedRuns[3].generator
  /\ EndedRuns[1].error = "LeftColumnOverflowError"
  /\ EndedRuns[2].pages = 2

\* C23: get_style(alignment=a, textColor=c) returns a style whose alignment
\* is a, for each of 0, 1, 2, 4, and whose text color is c; an argument
\* left out gives the factory's own; every other attribute is the factory's.
C23_Override ==
  style # NoStyle =>
    /\ style.alignment = Given(style_args.alignment, factory.alignment)
    /\ style.textColor = hex_color(Given(style_args.textColor, factory.textColor))
    /\ style.fontName = factory.fontName
    /\ style.fontSize = factory.fontSize
    /\ style.leading = factory.leading
    /\ style.leftIndent = factory.leftIndent
    /\ style.rightIndent = factory.rightIndent
    /\ style.spaceAfter = factory.spaceAfter
    /\ style.spaceBefore = factory.spaceBefore

\* the font family names of the rendering library the claim lists
FontFamilies ==
  { <<"H", "e", "l", "v", "e", "t", "i", "c", "a">>,
    <<"H", "e", "l", "v", "e", "t", "i", "c", "a", "-", "B", "o", "l", "d">>,
    <<"H", "e", "l", "v", "e", "t", "i", "c", "a", "-",
      "O", "b", "l", "i", "q", "u", "e">>,
    <<"H", "e", "l", "v", "e", "t", "i", "c", "a", "-",
      "B", "o", "l", "d", "O", "b", "l", "i", "q", "u", "e">>,
    <<"S", "y", "m", "b", "o", "l", "a">> }

\* the dimensions of each paper size in points: the ISO sizes in
\* millimetres (25.4 to the inch) and the US sizes in inches
PaperDimensions(paper) ==
  LET mm(n) == FromRational(n * 72 * 10, 254)
      in2(n) == FromRational(n * 72, 2)
  IN CASE paper = "a3" -> <<mm(297), mm(420)>>
       [] paper = "a4" -> <<mm(210), mm(297)>>
       [] paper = "a5" -> <<mm(148), mm(210)>>
       [] paper = "legal" -> <<in2(17), in2(28)>>
       [] paper = "letter" -> <<in2(17), in2(22)>>

\* C30: font_name maps every StyleFont member to one of Helvetica,
\* Helvetica-Bold, Helvetica-Oblique, Helvetica-BoldOblique, Symbola, spelt
\* exactly so, and distinct members to distinct names; PageSize.size gives
\* every member the dimensions of its own paper.
C30_LookupTables ==
  /\ factory # NoFactory => factory.fontName \in FontFamilies
  /\ \A m1, m2 \in StyleFont : m1 # m2 => font_name(m1) # font_name(m2)
  /\ dims # NoDims => dims.size = PaperDimensions(dims.paper)

\* the flowables of the story that render list entries of a section, in
\* story order
EntryPart(sec) == SelectSeq(story, LAMBDA f : f.sec = sec /\ f.entry > 0)

\* the positions of EntryPart(sec) where the rendering of an entry starts
EntryStarts(sec) ==
  LET P == EntryPart(sec)
  IN {i \in 1..Len(P) : i = 1 \/ P[i].entry # P[i - 1].entry}

\* the entries of a section are rendered once each, in the order of the
\* input list: the k-th rendering is that of list[k] and opens with lead(list[k])
InInputOrder(sec, list, lead(_)) ==
  LET P == EntryPart(sec)
      S == EntryStarts(sec)
  IN /\ Cardinality(S) = Len(list)
     /\ \A i \in S :
          /\ P[i].entry = Cardinality({j \in S : j <= i})
          /\ P[i].text = lead(list[P[i].entry])

\* the texts of the bullet paragraphs of experience entry k, in story order
PointsOf(k) ==
  LET P == SelectSeq(story, LAMBDA f : f.sec = "experience" /\ f.entry = k
                                        /\ f.style = "RightColumnText")
  IN [i \in 1..Len(P) |-> P[i].text[2]]

\* the skills named in the skills paragraph of category k (every second
\* piece of the joined text), in the order written
SkillsOf(k) ==
  LET P == SelectSeq(story, LAMBDA f : f.sec = "skills" /\ f.entry = k
                                        /\ f.kind = "Paragraph")
      t == P[2].text
  IN [i \in 1..((Len(t) + 1) \div 2) |-> t[2 * i - 1]]

\* C24: within every section the entries are rendered in the order of the
\* input (experience, education and certification entries, the bullet
\* points of an experience entry, the skills of a category), and skill
\* categories and custom sections in the iteration order of their mapping;
\* none is re-sorted, dropped or rendered twice.
C24_InputOrder ==
  Built =>
    /\ InInputOrder("experience", resume_data.work_experience,
                    LAMBDA e : <<e.position>>)
    /\ InInputOrder("education", resume_data.education,
                    LAMBDA e : <<"<b>", e.degree, "</b>">>)
    /\ InInputOrder("certifications", resume_data.certifications,
                    LAMBDA e : <<"<b>", e.title, "</b>">>)
    /\ InInputOrder("skills", resume_data.skills,
                    LAMBDA e : <<"<b>", Upper(e.category), "</b>">>)
    /\ InInputOrder("custom", resume_data.custom_sections.items,
                    LAMBDA e : <<Upper(e.title)>>)
    /\ \A k \in 1..Len(resume_data.work_experience) :
         PointsOf(k) = resume_data.work_experience[k].summary
    /\ \A k \in 1..Len(resume_data.skills) :
         SkillsOf(k) = resume_data.skills[k].skill_list

\* two different experience entries, the second with two bullet points, and
\* a skill category with two skills
C24_Witness ==
  /\ Built
  /\ Len(resume_data.work_experience) = 2
  /\ resume_data.work_experience[1] # resume_data.work_experience[2]
  /\ Len(resume_data.work_experience[2].summary) = 2
  /\ Len(resume_data.skills) = 1
  /\ Len(resume_data.skills[1].skill_list) = 2
  /\ PointsOf(2) = <<"point-short", "point-long">>

\* the marker has been processed while the sidebar frame of page 1 was the
\* current frame
MarkedInSidebar ==
  \E i \in 1..Len(placed) :
    placed[i].fl.kind = "Marker" /\ placed[i].page = 1 /\ placed[i].frame = 0

\* C25: once the marker has been processed in the sidebar frame of page 1,
\* no LeftColumnOverflowError is raised in the rest of the build, whatever
\* frames and pages the later content fills; and within a build neither
\* _left_column_finished nor _in_left_column_content goes back from true
\* to false.
C25_NoFalsePositive ==
  /\ [](MarkedInSidebar => ~Overflowed)
  /\ [][/\ _left_column_finished => _left_column_finished'
        /\ _in_left_column_content => _in_left_column_content']_vars

\* after the marker the content went through the main frame of page 1 and
\* on to the frames of a second page, and the build ended normally
C25_Witness ==
  /\ MarkedInSidebar
  /\ pc = "done"
  /\ pages >= 2
  /\ \E i \in 1..Len(placed) : placed[i].page = 2 /\ placed[i].frame = 1

\* the positions of the story holding a flowable of the kind
PositionsOf(kind) == {i \in 1..Len(story) : story[i].kind = kind}

SidebarSections == {"header", "summary", "contact", "skills", "education", "certifications"}
MainSections == {"experience", "custom"}

\* C26: the story generate_pdf builds has exactly one
\* LeftColumnFinishedMarker and exactly one FrameBreak, the marker directly
\* before the break; what the sidebar builders produce lies before the
\* marker and what the main-column builders produce after the break; and so,
\* unless LeftColumnOverflowError is raised, the main frame is never the
\* current frame before the marker has been processed.
C26_MarkerThenBreak ==
  Built =>
    /\ Cardinality(PositionsOf("Marker")) = 1
    /\ Cardinality(PositionsOf("FrameBreak")) = 1
    /\ \A i \in PositionsOf("Marker") :
         /\ i + 1 \in PositionsOf("FrameBreak")
         /\ \A j \in 1..Len(story) :
              /\ story[j].sec \in SidebarSections => j < i
              /\ story[j].sec \in MainSections => j > i + 1
              /\ story[j].sec \in SidebarSections \cup MainSections \cup {"break"}
    /\ (frame = 1 /\ ~Overflowed) => _left_column_finished
    /\ (\E k \in 1..Len(placed) : placed[k].frame = 1 /\ ~Overflowed) =>
          \E k \in 1..Len(placed) :
            /\ placed[k].fl.kind = "Marker"
            /\ \A n \in 1..Len(placed) : placed[n].frame = 1 => k < n

\* a build that ended normally with the marker placed in the sidebar frame
\* and work experience and a custom section placed in the main frame
C26_Witness ==
  /\ pc = "done"
  /\ \E k \in 1..Len(placed) : placed[k].frame = 0 /\ placed[k].fl.kind = "Marker"
  /\ \E k \in 1..Len(placed) :
       placed[k].frame = 1 /\ placed[k].fl.sec = "custom" /\ placed[k].fl.entry > 0
  /\ \E k \in 1..Len(placed) :
       placed[k].frame = 1 /\ placed[k].fl.sec = "experience" /\ placed[k].fl.entry > 0

\* a call of generate_pdf has just set up its document and story
CallStarts == pc # "build" /\ pc' = "build"

\* C27: every generate_pdf call builds a fresh ColumnAwareDoc whose two
\* flags start false and binds self._current_doc to it before the marker is
\* created, so the marker of a call refers to that call's document; the
\* flags of the documents of earlier calls are never touched again; and a
\* call lays its resume out as the first call on a new generator would,
\* whatever the earlier calls were given and however they ended, a
\* LeftColumnOverflowError included.
C27_PerGeneration ==
  /\ [][CallStarts =>
          /\ ~_left_column_finished' /\ ~_in_left_column_content'
          /\ _current_doc' = CurrentDoc' /\ doc_ref' = CurrentDoc'
          /\ CurrentDoc' = Len(runs') + 1]_vars
  /\ [](pc = "build" => doc_ref = CurrentDoc /\ _current_doc = CurrentDoc)
  /\ [][\A i \in 1..Len(docs) : Len(docs') >= i /\ docs'[i] = docs[i]]_vars
  /\ [](\A k \in 2..Len(EndedRuns) :
          EndedRuns[k].resume_data = EndedRuns[1].resume_data =>
            /\ EndedRuns[k].story = EndedRuns[1].story
            /\ Layout(EndedRuns[k]) = Layout(EndedRuns[1]))

\* on one generator: a resume that fits, then one that overflows, then the
\* first again, which fits again
C27_Witness ==
  /\ Len(EndedRuns) = 3
  /\ \A k \in 1..3 : EndedRuns[k].generator = 1
  /\ EndedRuns[1].pc = "done"
  /\ EndedRuns[2].error = "LeftColumnOverflowError"
  /\ EndedRuns[3].resume_data = EndedRuns[1].resume_data
  /\ EndedRuns[3].pc = "done"
  /\ docs[1]._left_column_finished /\ ~docs[2]._left_column_finished

\* the three abscissas as generate_pdf and beforeDrawPage compute them in
\* floating point: x1 + width of the left frame, column_boundary, x1 of the
\* right frame
FloatEdges ==
  LET m == Mul(FromRational(25, 100), inchF)
      pw == Sub(Sub(FromRational(letter[1], 100), m), m)
      lcw == Mul(pw, FromRational(34, 100))
      gap == Mul(FromRational(1, 10), inchF)
  IN [left_right |-> Add(m, Sub(lcw, gap)),
      boundary |-> Add(Add(m, lcw), Mul(FromRational(5, 100), inchF)),
      main_left |-> Add(Add(m, lcw), gap)]

\* C28: the tint rectangle of every page starts at or left of the sidebar
\* frame and ends between the sidebar frame's right edge (left margin +
\* sidebar width - 0.1 inch) and the main frame's left edge (left margin +
\* sidebar width + 0.1 inch): it covers the sidebar frame and does not
\* reach the main frame, in exact and in floating-point arithmetic.
C28_TintBetweenFrames ==
  /\ \A i \in 1..Len(painted) :
       LET L == template.frames[1]
           R == template.frames[2]
           right == painted[i].x + painted[i].width
       IN /\ painted[i].x <= L.x1
          /\ L.x1 + L.width = Margin + left_col_width - Gap
          /\ R.x1 = Margin + left_col_width + Gap
          /\ L.x1 + L.width <= right
          /\ right <= R.x1
  /\ Built => /\ LessEq(FloatEdges.left_right, FloatEdges.boundary)
              /\ LessEq(FloatEdges.boundary, FloatEdges.main_left)

\* one page painted and drawn on in both frames
C28_Witness ==
  /\ Len(painted) = 1
  /\ pc = "done"
  /\ \E i \in 1..Len(placed) : placed[i].frame = 0 /\ placed[i].rects = 1
  /\ \E i \in 1..Len(placed) : placed[i].frame = 1 /\ placed[i].rects = 1

\* education entry k has a "GPA:" line in the story
HasGpaLine(k) ==
  \E i \in 1..Len(story) :
    /\ story[i].sec = "education" /\ story[i].entry = k
    /\ story[i].text # <<>> /\ story[i].text[1] = "GPA: "

\* C29: an education entry produces a "GPA:" line exactly when its gpa is
\* present (not None), whatever its value in [0, 4], 0 included.
C29_GpaLine ==
  Built =>
    \A k \in 1..Len(resume_data.education) :
      HasGpaLine(k) <=> resume_data.education[k].gpa # NoGpa

====
